---- MODULE Spec2Model ----
(***************************************************************************)
(* Model of the code that derive(RequestBuilder) generates for a request   *)
(* struct: the builder (one optional slot per field), its setters, the     *)
(* terminal build(), and build_url()/build_body() of the built request.    *)
(*                                                                         *)
(* The macro is a function from a struct declaration to code, so the       *)
(* struct declaration (desc) is part of the state: it is chosen in Init    *)
(* and never changes.  Text is modelled as a sequence of one-character     *)
(* strings, so that placeholder scanning, str::replace, Display, the       *)
(* query-string encoder and the JSON writer are computed character by      *)
(* character as the code computes them.                                    *)
(***************************************************************************)
EXTENDS Integers, Sequences, FiniteSets, TLC

\* The largest number of fields of a request struct.
MaxFields == 2

----------------------------------------------------------------------------
(* std::option::Option *)

None == <<>>
Some(v) == <<v>>
is_some(o) == Len(o) = 1
is_none(o) == Len(o) = 0
unwrap(o) == o[1]

----------------------------------------------------------------------------
(* Text helpers *)

RECURSIVE Concat(_)
\* The concatenation of a sequence of texts.
Concat(parts) ==
    IF parts = <<>> THEN <<>> ELSE Head(parts) \o Concat(Tail(parts))

RECURSIVE Join(_, _)
\* [String]::join(sep)
Join(parts, sep) ==
    IF parts = <<>> THEN <<>>
    ELSE IF Len(parts) = 1 THEN parts[1]
    ELSE parts[1] \o sep \o Join(Tail(parts), sep)

\* str::starts_with at offset i (1-based): pat occurs in s at position i.
MatchesAt(s, i, pat) ==
    /\ i + Len(pat) - 1 <= Len(s)
    /\ \A k \in 1..Len(pat) : s[i + k - 1] = pat[k]

RECURSIVE ReplaceFrom(_, _, _, _)
ReplaceFrom(s, i, pat, rep) ==
    IF i > Len(s) THEN <<>>
    ELSE IF MatchesAt(s, i, pat)
         THEN rep \o ReplaceFrom(s, i + Len(pat), pat, rep)
         ELSE <<s[i]>> \o ReplaceFrom(s, i + 1, pat, rep)

\* str::replace(pat, rep): every non-overlapping match of the (non-empty)
\* pattern, left to right, is replaced.
Replace(s, pat, rep) == ReplaceFrom(s, 1, pat, rep)

RECURSIVE u32_to_string(_)
\* Display for an unsigned integer: its decimal digits.
u32_to_string(n) ==
    LET Digits == <<"0", "1", "2", "3", "4", "5", "6", "7", "8", "9">>
    IN  IF n < 10 THEN <<Digits[n + 1]>>
        ELSE u32_to_string(n \div 10) \o <<Digits[(n % 10) + 1]>>

----------------------------------------------------------------------------
(* derive_rest_api::RequestError *)

NoError == [kind |-> "NoError", field |-> <<>>, message |-> ""]

missing_field(field) ==
    [kind |-> "MissingField", field |-> field, message |-> ""]

missing_path_parameter(param) ==
    [kind |-> "MissingPathParameter", field |-> param, message |-> ""]

validation_error(field, message) ==
    [kind |-> "ValidationError", field |-> field, message |-> message]

----------------------------------------------------------------------------
(* The struct declarations the macro is applied to *)

FieldKind == {"Unspecified", "Path", "Query", "Body", "Header"}

DefaultBehavior == {"Required", "UseDefault", "Custom"}

\* The fields a struct declares, in declaration order: their names and the
\* type inside Option<..> (or the type itself).
FieldPool ==
    << [name |-> <<"i", "d">>, inner |-> "u32"],
       [name |-> <<"b">>, inner |-> "String"],
       [name |-> <<"c">>, inner |-> "u32"] >>

\* The values a caller passes to the setter of a field of the given type:
\* u32, String, or HashMap<(u32, u32), String>, a map written as the
\* sequence of its entries.
SetterValues(inner) ==
    IF inner = "u32" THEN {0, 123}
    ELSE IF inner = "Map"
    THEN { <<>>, << [key |-> <<1, 2>>, value |-> <<"z">>] >> }
    ELSE { <<>>, <<"z">>, <<"{", "i", "d", "}">> }

\* Default::default() of the field types.
type_default(inner) == IF inner = "u32" THEN 0 ELSE <<>>

\* The expression of `default = "expr"` on a field of the given type.
custom_expr(inner) == IF inner = "u32" THEN 7 ELSE <<"z">>

\* The validation functions of the test suite, by the type they take.
validate_positive(value) ==
    IF value > 0 THEN None ELSE Some("value must be positive")

validate_min_length(value) ==
    IF Len(value) >= 3 THEN None ELSE Some("must be at least 3 characters")

\* Calls the validation function named by `validate = "..."`; None is Ok(()),
\* Some(m) is Err(m).
call_validator(validate_fn, value) ==
    IF validate_fn = "validate_positive" THEN validate_positive(value)
    ELSE validate_min_length(value)

ValidatorFor(inner) ==
    IF inner = "u32" THEN "validate_positive" ELSE "validate_min_length"

\* The URL templates of `path = "..."`.
PathTemplates ==
    { <<"/", "u">>,
      <<"/", "u", "/", "{", "i", "d", "}">>,
      <<"/", "{", "b", "}", "/", "{", "i", "d", "}">>,
      <<"/", "{", "i", "d", "}", "/", "{", "b", "}">> }

\* Declarations that exercise build(): every combination of Option, default
\* behaviour and validator on each field, with and without struct-level
\* default.
BuildFields(k) ==
    { [name |-> FieldPool[k].name,
       ty |-> [option |-> o, inner |-> FieldPool[k].inner],
       default |-> d,
       validate |-> v,
       kind |-> "Unspecified",
       rename |-> None] :
        o \in BOOLEAN, d \in DefaultBehavior,
        v \in {None, Some(ValidatorFor(FieldPool[k].inner))} }

\* Declarations that exercise the request surface: every combination of
\* Option and role on each field.
HttpFields(k) ==
    { [name |-> FieldPool[k].name,
       ty |-> [option |-> o, inner |-> FieldPool[k].inner],
       default |-> "Required",
       validate |-> None,
       kind |-> kd,
       rename |-> None] :
        o \in BOOLEAN, kd \in FieldKind }

\* The header fields a struct declares, in declaration order.  The first two
\* names differ only in letter case, the third has a leading and a doubled
\* underscore.
HeaderPool ==
    << [name |-> <<"x", "_", "a", "p", "i", "_", "k", "e", "y">>,
        inner |-> "String"],
       [name |-> <<"x", "_", "A", "P", "I", "_", "k", "e", "y">>,
        inner |-> "u32"],
       [name |-> <<"_", "a", "_", "_", "b">>, inner |-> "String"] >>

\* The names of `header = "..."`, `query = "..."` and `body = "..."`.
HeaderRenames ==
    { <<"X", "-", "I", "D">>,
      <<"X", "-", "A", "p", "i", "-", "K", "e", "y">> }

KeyRenames == { <<"k">> }

\* Declarations that exercise build_headers(): header fields, Option or
\* not, with and without an explicit header name.
HeaderFields(k) ==
    { [name |-> HeaderPool[k].name,
       ty |-> [option |-> o, inner |-> HeaderPool[k].inner],
       default |-> "Required",
       validate |-> None,
       kind |-> "Header",
       rename |-> r] :
        o \in BOOLEAN, r \in {None} \cup { Some(n) : n \in HeaderRenames } }

\* Declarations with `query = "k"` and `body = "k"`.
RenameFields(k) ==
    { [name |-> FieldPool[k].name,
       ty |-> [option |-> o, inner |-> FieldPool[k].inner],
       default |-> "Required",
       validate |-> None,
       kind |-> kd,
       rename |-> Some(r)] :
        o \in BOOLEAN, kd \in {"Query", "Body"}, r \in KeyRenames }

\* The declarations of Len(pools) fields: the k-th field is one of
\* pools[k].
FieldSeqs(pools) ==
    { fs \in [DOMAIN pools -> UNION { pools[k] : k \in DOMAIN pools }] :
        \A k \in DOMAIN pools : fs[k] \in pools[k] }

----------------------------------------------------------------------------
(* Generation time: the URL template and the declarations accepted *)

RECURSIVE read_param(_, _, _)
\* The inner loop of extract_path_params: reads up to the next '}' (which it
\* consumes) or the end of the template.
read_param(path, i, param) ==
    IF i > Len(path) THEN [param |-> param, next |-> i]
    ELSE IF path[i] = "}" THEN [param |-> param, next |-> i + 1]
    ELSE read_param(path, i + 1, Append(param, path[i]))

RECURSIVE extract_from(_, _, _)
extract_from(path, i, params) ==
    IF i > Len(path) THEN params
    ELSE IF path[i] = "{"
         THEN LET r == read_param(path, i + 1, <<>>)
              IN  extract_from(path, r.next,
                      IF r.param # <<>> THEN Append(params, r.param) ELSE params)
         ELSE extract_from(path, i + 1, params)

\* The names between '{' and '}' in the template, in order of occurrence.
extract_path_params(path) == extract_from(path, 1, <<>>)

\* fields.iter().find(|field| field.ident == param): the index of the first
\* field with that name, 0 when there is none.
matching_field(fields, param) ==
    IF \E i \in 1..Len(fields) : fields[i].name = param
    THEN CHOOSE i \in 1..Len(fields) :
            /\ fields[i].name = param
            /\ \A j \in 1..(i - 1) : fields[j].name # param
    ELSE 0

\* The generated build_url compiles: no placeholder expands to compile_error!.
path_params_match(d) ==
    LET params == extract_path_params(d.path)
    IN  \A k \in 1..Len(params) : matching_field(d.fields, params[k]) # 0

BuildDescs ==
    { [fields |-> fs, default |-> sd, path |-> <<"/", "u">>] :
        fs \in UNION { FieldSeqs([k \in 1..n |-> BuildFields(k)]) :
                           n \in 1..MaxFields },
        sd \in BOOLEAN }

HttpDescs ==
    { d \in { [fields |-> fs, default |-> FALSE, path |-> p] :
                fs \in UNION { FieldSeqs([k \in 1..n |-> HttpFields(k)]) :
                                   n \in 1..MaxFields },
                p \in PathTemplates } :
        path_params_match(d) }

HeaderDescs ==
    { [fields |-> fs, default |-> FALSE, path |-> <<"/", "u">>] :
        fs \in UNION { FieldSeqs([k \in 1..n |-> HeaderFields(k)]) :
                           n \in 1..MaxFields } }

RenameDescs ==
    { [fields |-> fs, default |-> FALSE, path |-> <<"/", "u">>] :
        fs \in UNION { FieldSeqs([k \in 1..n |-> RenameFields(k)]) :
                           n \in 1..MaxFields } }

\* The struct declarations of the model.
Descs == BuildDescs \cup HttpDescs \cup HeaderDescs \cup RenameDescs

----------------------------------------------------------------------------
(* Generation time: parsing the annotations of a struct as written *)

\* One entry of #[request_builder(...)]: a key, with or without `= value`.
meta(key) == [key |-> key, value |-> None]
meta_value(key, value) == [key |-> key, value |-> Some(value)]

\* syn::Result: Ok(v), or Err with the diagnostic (for a placeholder
\* without a field: concat!(message, param, "' does not match any field")).
Ok(v) == [ok |-> TRUE, val |-> v, message |-> "", param |-> <<>>]
Err(message) ==
    [ok |-> FALSE, val |-> <<>>, message |-> message, param |-> <<>>]
compile_error(message, param) ==
    [ok |-> FALSE, val |-> <<>>, message |-> message, param |-> param]

\* StructAttributes::default() and FieldAttributes::default()
StructAttributes_default ==
    [into |-> FALSE, default |-> FALSE, method |-> None, path |-> None,
     query_config |-> None, response |-> None]

FieldAttributes_default ==
    [into |-> FALSE, default |-> "Required", validate |-> None,
     kind |-> "Unspecified", rename |-> None]

\* The closure parse_struct_attributes hands to parse_nested_meta.
struct_meta(result, m) ==
    IF m.key = "into" /\ is_none(m.value)
    THEN Ok([result EXCEPT !.into = TRUE])
    ELSE IF m.key = "method" /\ is_some(m.value)
    THEN Ok([result EXCEPT !.method = m.value])
    ELSE IF m.key = "path" /\ is_some(m.value)
    THEN Ok([result EXCEPT !.path = m.value])
    ELSE IF m.key = "response" /\ is_some(m.value)
    THEN Ok([result EXCEPT !.response = m.value])
    ELSE IF m.key = "default" /\ is_none(m.value)
    THEN Ok([result EXCEPT !.default = TRUE])
    ELSE IF m.key = "query_config" /\ is_some(m.value)
    THEN Ok([result EXCEPT !.query_config = m.value])
    ELSE IF m.key \in {"into", "default"}
    THEN Err("expected ,")
    ELSE IF m.key \in {"method", "path", "response", "query_config"}
    THEN Err("expected =")
    ELSE Err("unsupported request_builder attribute")

\* The closure parse_field_attributes hands to parse_nested_meta.
field_meta(result, m) ==
    IF m.key = "into" /\ is_none(m.value)
    THEN Ok([result EXCEPT !.into = TRUE])
    ELSE IF m.key = "path" /\ is_none(m.value)
    THEN Ok([result EXCEPT !.kind = "Path"])
    ELSE IF m.key = "query"
    THEN Ok([result EXCEPT !.kind = "Query",
                           !.rename = IF is_some(m.value) THEN m.value ELSE @])
    ELSE IF m.key = "body"
    THEN Ok([result EXCEPT !.kind = "Body",
                           !.rename = IF is_some(m.value) THEN m.value ELSE @])
    ELSE IF m.key = "header"
    THEN Ok([result EXCEPT !.kind = "Header",
                           !.rename = IF is_some(m.value) THEN m.value ELSE @])
    ELSE IF m.key = "default" /\ is_none(m.value)
    THEN Ok([result EXCEPT !.default = "UseDefault"])
    ELSE IF m.key = "validate" /\ is_some(m.value)
    THEN Ok([result EXCEPT !.validate = m.value])
    ELSE IF m.key \in {"into", "path", "default"}
    THEN Err("expected ,")
    ELSE IF m.key = "validate"
    THEN Err("expected =")
    ELSE Err("unsupported field-level request_builder attribute")

RECURSIVE parse_nested_meta(_, _, _, _)
\* attr.parse_nested_meta(closure)?: the entries in order, stopping at the
\* first the closure rejects.  is_field selects the closure.
parse_nested_meta(is_field, attrs, k, result) ==
    IF k > Len(attrs) THEN Ok(result)
    ELSE LET r == IF is_field THEN field_meta(result, attrs[k])
                  ELSE struct_meta(result, attrs[k])
         IN  IF ~r.ok THEN r
             ELSE parse_nested_meta(is_field, attrs, k + 1, r.val)

parse_struct_attributes(attrs) ==
    parse_nested_meta(FALSE, attrs, 1, StructAttributes_default)

parse_field_attributes(attrs) ==
    parse_nested_meta(TRUE, attrs, 1, FieldAttributes_default)

\* Result::unwrap_or_default
unwrap_or_default(r, default) == IF r.ok THEN r.val ELSE default

\* The attributes the generators use for a field:
\* parse_field_attributes(&field.attrs).unwrap_or_default().
field_attributes(f) ==
    unwrap_or_default(parse_field_attributes(f.attrs), FieldAttributes_default)

\* The field as the generators see it: its name, type and attributes.
field_descriptor(f) == [name |-> f.name, ty |-> f.ty] @@ field_attributes(f)

\* The placeholders of the template that expand to compile_error!.
unmatched_params(path, fields) ==
    SelectSeq(extract_path_params(path),
              LAMBDA param : matching_field(fields, param) = 0)

\* path_replacements that leaves a placeholder without a field in the URL.
generate_path_replacements_Lenient(struct_attrs, fields) == Ok("build_url")

\* path_replacements that also rejects a path-role field the template does
\* not name.
generate_path_replacements_PathChecked(struct_attrs, fields) ==
    LET path == unwrap(struct_attrs.path)
        params == extract_path_params(path)
        unmatched == unmatched_params(path, fields)
    IN  IF unmatched # <<>>
        THEN compile_error("Path parameter does not match any field", unmatched[1])
        ELSE IF \E i \in 1..Len(fields) :
                   /\ fields[i].kind = "Path"
                   /\ \A k \in 1..Len(params) : params[k] # fields[i].name
        THEN Err("path field is not in the template")
        ELSE Ok("build_url")

\* generate_path_replacements at generation time: the generated build_url()
\* holds a compile_error! for every placeholder no field is named after.
generate_path_replacements(struct_attrs, fields) ==
    LET unmatched == unmatched_params(unwrap(struct_attrs.path), fields)
    IN  IF unmatched # <<>>
        THEN compile_error("Path parameter does not match any field", unmatched[1])
        ELSE Ok("build_url")

\* generate_request_builder: the outcome of compiling the annotated struct.
\* stage tells a macro error from an error in the expansion (a
\* compile_error!, or generated code that does not parse).
generate_request_builder(input) ==
    LET struct_attrs == parse_struct_attributes(input.attrs)
        fields == [i \in 1..Len(input.fields) |->
                      field_descriptor(input.fields[i])]
    IN  IF ~struct_attrs.ok
        THEN [ok |-> FALSE, stage |-> "macro",
              message |-> struct_attrs.message, param |-> <<>>,
              struct_attrs |-> StructAttributes_default, fields |-> <<>>]
        ELSE IF input.shape # "Named"
        THEN [ok |-> FALSE, stage |-> "macro",
              message |-> "RequestBuilder only supports structs with named fields",
              param |-> <<>>,
              struct_attrs |-> struct_attrs.val, fields |-> <<>>]
        ELSE IF fields = <<>>
        THEN \* `#(#builder_fields),*,` expands to a lone `,` at the head of
             \* the builder's field list and of Self { .. } in new()
             [ok |-> FALSE, stage |-> "expansion",
              message |-> "expected identifier, found ,", param |-> <<>>,
              struct_attrs |-> struct_attrs.val, fields |-> <<>>]
        ELSE LET url ==
                     IF is_some(struct_attrs.val.path)
                     THEN generate_path_replacements(struct_attrs.val, fields)
                     ELSE Ok("none")
             IN  [ok |-> url.ok,
                  stage |-> IF url.ok THEN "done" ELSE "expansion",
                  message |-> url.message, param |-> url.param,
                  struct_attrs |-> struct_attrs.val, fields |-> fields]

\* The URL templates of the annotated structs: {x} names no field.
InputTemplates ==
    { <<"/", "u">>,
      <<"/", "u", "/", "{", "i", "d", "}">>,
      <<"/", "{", "i", "d", "}", "/", "{", "x", "}">> }

\* The struct-level annotations: with and without a template, alone or
\* followed by a recognized or an unrecognized key.
InputStructAttrs ==
    { p \o rest :
        p \in {<<>>} \cup { <<meta_value("path", t)>> : t \in InputTemplates },
        rest \in { <<>>, <<meta("default")>>, <<meta("bogus")>> } }

\* The field-level annotations.
InputFieldAttrs ==
    { <<>>,
      <<meta("path")>>,
      <<meta("query")>>,
      <<meta_value("header", <<"X", "-", "I", "D">>)>>,
      <<meta("bogus")>>,
      <<meta("header"), meta_value("retry", <<"3">>)>> }

InputFields(k) ==
    { [name |-> FieldPool[k].name,
       ty |-> [option |-> o, inner |-> FieldPool[k].inner],
       attrs |-> a] :
        o \in BOOLEAN, a \in InputFieldAttrs }

\* The annotated structs the macro is applied to: `struct S { .. }` with
\* its fields (none for `struct S {}`) and the unit struct `struct S;`.
Inputs ==
    { [shape |-> "Named", attrs |-> a, fields |-> fs] :
        a \in InputStructAttrs,
        fs \in UNION { FieldSeqs([k \in 1..n |-> InputFields(k)]) :
                           n \in 0..MaxFields } }
    \cup { [shape |-> "Unit", attrs |-> a, fields |-> <<>>] :
              a \in InputStructAttrs }

\* No annotated struct: the specifications that start from generated code.
NoInput == [shape |-> "Named", attrs |-> <<>>, fields |-> <<>>]

----------------------------------------------------------------------------
(* State *)

VARIABLES
    desc,       \* the struct declaration the code was generated from
    builder,    \* the builder value: one Option slot per field
    phase,      \* "builder", or "built"/"failed" once build() consumed it
    request,    \* Some(field values) of the built request, None before/without
    error,      \* the RequestError build() returned, NoError otherwise
    calls,      \* what build() executed, in order: extractions and validator calls
    out,        \* the last method called on the built request and its result
    input,      \* the annotated struct the macro is applied to
    generated,  \* Some(outcome of generate_request_builder), None before
    api,        \* the generated API client: config, base_url, client
    transport   \* the calls the transport clients received, in order

vars == <<desc, builder, phase, request, error, calls, out,
          input, generated, api, transport>>

\* What the builder and the built request leave alone.
surroundings == <<input, generated, api, transport>>

NoCall == [op |-> "none", ok |-> TRUE, val |-> <<>>, err |-> NoError]

\* Builder::new(): every slot None, no client, no base URL, no dynamic
\* header, no timeout.
new(d) ==
    [slots |-> [i \in 1..Len(d.fields) |-> None],
     http_client |-> None,
     async_http_client |-> None,
     base_url |-> None,
     dynamic_headers |-> [key \in {} |-> <<>>],
     timeout |-> None]

\* The base URL literal of #[api_client(base_url = "...")].
BaseUrlLiteral == <<"h">>

\* The transport clients: C::default() and one the caller supplies.
DefaultClient == "default"
Clients == {"default", "custom"}

\* ApiClient::new(): no config, the base URL of the annotation,
\* C::default().
ApiClient_new ==
    [config |-> None, base_url |-> BaseUrlLiteral, client |-> DefaultClient]

\* What every specification starts with apart from the declaration.
Fresh ==
    /\ request = None
    /\ error = NoError
    /\ calls = <<>>
    /\ out = NoCall
    /\ generated = None
    /\ api = ApiClient_new
    /\ transport = <<>>

Init ==
    /\ desc \in Descs
    /\ builder = new(desc)
    /\ phase = "builder"
    /\ input = NoInput
    /\ Fresh

----------------------------------------------------------------------------
(* Builder: setters and build() *)

option_inner_type(ty) == IF ty.option THEN Some(ty.inner) ELSE None

\* The generated setter of field i: the slot becomes Some(value).
setter(b, i, value) == [b EXCEPT !.slots[i] = Some(value)]

\* default_behavior with the struct-level default left out.
default_behavior_FieldOnly(f, struct_attrs) == f.default

\* generate_field_processing: struct-level default applies to a field
\* without a field-level default; a field-level default overrides it.
default_behavior(f, struct_attrs) ==
    IF f.default = "Required"
    THEN IF struct_attrs.default THEN "UseDefault" ELSE "Required"
    ELSE f.default

\* value_extraction without the missing-field check: an unset required
\* field falls back to the type's default.
value_extraction_NoCheck(f, struct_attrs, slot) ==
    IF is_some(option_inner_type(f.ty))
    THEN [ok |-> TRUE, temp |-> slot, err |-> NoError]
    ELSE [ok |-> TRUE,
          temp |-> IF is_some(slot) THEN unwrap(slot)
                   ELSE IF f.default = "Custom" THEN custom_expr(f.ty.inner)
                   ELSE type_default(f.ty.inner),
          err |-> NoError]

\* The value-extraction statement of one field: Ok(temp) or the `?` return.
value_extraction(f, struct_attrs, slot) ==
    IF is_some(option_inner_type(f.ty))
    THEN [ok |-> TRUE, temp |-> slot, err |-> NoError]
    ELSE LET db == default_behavior(f, struct_attrs)
         IN  IF db = "Required"
             THEN IF is_some(slot)
                  THEN [ok |-> TRUE, temp |-> unwrap(slot), err |-> NoError]
                  ELSE [ok |-> FALSE, temp |-> None, err |-> missing_field(f.name)]
             ELSE IF db = "UseDefault"
             THEN [ok |-> TRUE,
                   temp |-> IF is_some(slot) THEN unwrap(slot)
                            ELSE type_default(f.ty.inner),
                   err |-> NoError]
             ELSE [ok |-> TRUE,
                   temp |-> IF is_some(slot) THEN unwrap(slot)
                            ELSE custom_expr(f.ty.inner),
                   err |-> NoError]

\* validation that reports the failure under the validator's name instead
\* of the field's.
validation_WrongName(f, temp) ==
    IF is_none(f.validate)
    THEN [arg |-> None, ok |-> TRUE, err |-> NoError]
    ELSE LET present == IF f.ty.option THEN temp ELSE Some(temp)
         IN  IF is_none(present)
             THEN [arg |-> None, ok |-> TRUE, err |-> NoError]
             ELSE LET r == call_validator(unwrap(f.validate), unwrap(present))
                  IN  [arg |-> present, ok |-> is_none(r),
                       err |-> IF is_none(r) THEN NoError
                               ELSE validation_error(<<"v">>, unwrap(r))]

\* validation that treats an absent Option value as the type's default.
validation_OptionAlways(f, temp) ==
    IF is_none(f.validate)
    THEN [arg |-> None, ok |-> TRUE, err |-> NoError]
    ELSE LET value == IF ~f.ty.option THEN temp
                      ELSE IF is_some(temp) THEN unwrap(temp)
                      ELSE type_default(f.ty.inner)
             r == call_validator(unwrap(f.validate), value)
         IN  [arg |-> Some(value), ok |-> is_none(r),
              err |-> IF is_none(r) THEN NoError
                      ELSE validation_error(f.name, unwrap(r))]

\* The validation statement of one field: the argument the validator is
\* called with (None when it is not called) and Ok or the `?` return.
validation(f, temp) ==
    IF is_none(f.validate)
    THEN [arg |-> None, ok |-> TRUE, err |-> NoError]
    ELSE IF is_some(option_inner_type(f.ty))
    THEN IF is_some(temp)
         THEN LET r == call_validator(unwrap(f.validate), unwrap(temp))
              IN  [arg |-> Some(unwrap(temp)), ok |-> is_none(r),
                   err |-> IF is_none(r) THEN NoError
                           ELSE validation_error(f.name, unwrap(r))]
         ELSE [arg |-> None, ok |-> TRUE, err |-> NoError]
    ELSE LET r == call_validator(unwrap(f.validate), temp)
         IN  [arg |-> Some(temp), ok |-> is_none(r),
              err |-> IF is_none(r) THEN NoError
                      ELSE validation_error(f.name, unwrap(r))]

Extracted(i) == [step |-> "extract", field |-> i, arg |-> None]
Validated(i, arg) == [step |-> "validate", field |-> i, arg |-> arg]

RECURSIVE process_all(_, _, _, _, _, _)
process_all(d, slots, i, temps, log, first) ==
    IF i > Len(d.fields)
    THEN IF first = NoError
         THEN [ok |-> TRUE, request |-> Some(temps), err |-> NoError, calls |-> log]
         ELSE [ok |-> FALSE, request |-> None, err |-> first, calls |-> log]
    ELSE LET f == d.fields[i]
             ex == value_extraction(f, d, slots[i])
             log1 == Append(log, Extracted(i))
         IN  IF ~ex.ok
             THEN process_all(d, slots, i + 1, Append(temps, None), log1,
                              IF first = NoError THEN ex.err ELSE first)
             ELSE LET va == validation(f, ex.temp)
                      log2 == IF is_some(va.arg)
                              THEN Append(log1, Validated(i, va.arg))
                              ELSE log1
                  IN  process_all(d, slots, i + 1, Append(temps, ex.temp), log2,
                                  IF first = NoError THEN va.err ELSE first)

\* field_processing that checks every field before it returns the first
\* error.
field_processing_All(d, slots, i, temps, log) ==
    process_all(d, slots, i, temps, log, NoError)

RECURSIVE field_processing_SetOnly(_, _, _, _, _)
\* field_processing that validates only a value the caller set, never a
\* substituted default.
field_processing_SetOnly(d, slots, i, temps, log) ==
    IF i > Len(d.fields)
    THEN [ok |-> TRUE, request |-> Some(temps), err |-> NoError, calls |-> log]
    ELSE LET f == d.fields[i]
             ex == value_extraction(f, d, slots[i])
             log1 == Append(log, Extracted(i))
         IN  IF ~ex.ok
             THEN [ok |-> FALSE, request |-> None, err |-> ex.err, calls |-> log1]
             ELSE LET va == IF is_some(slots[i]) THEN validation(f, ex.temp)
                            ELSE [arg |-> None, ok |-> TRUE, err |-> NoError]
                      log2 == IF is_some(va.arg)
                              THEN Append(log1, Validated(i, va.arg))
                              ELSE log1
                  IN  IF ~va.ok
                      THEN [ok |-> FALSE, request |-> None, err |-> va.err,
                            calls |-> log2]
                      ELSE field_processing_SetOnly(d, slots, i + 1,
                                                    Append(temps, ex.temp), log2)

RECURSIVE field_processing(_, _, _, _, _)
\* The statements of build() from field i on: for each field its value
\* extraction, then its validation; the first `?` that fires returns.
field_processing(d, slots, i, temps, log) ==
    IF i > Len(d.fields)
    THEN [ok |-> TRUE, request |-> Some(temps), err |-> NoError, calls |-> log]
    ELSE LET f == d.fields[i]
             ex == value_extraction(f, d, slots[i])
             log1 == Append(log, Extracted(i))
         IN  IF ~ex.ok
             THEN [ok |-> FALSE, request |-> None, err |-> ex.err, calls |-> log1]
             ELSE LET va == validation(f, ex.temp)
                      log2 == IF is_some(va.arg)
                              THEN Append(log1, Validated(i, va.arg))
                              ELSE log1
                  IN  IF ~va.ok
                      THEN [ok |-> FALSE, request |-> None, err |-> va.err,
                            calls |-> log2]
                      ELSE field_processing(d, slots, i + 1,
                                            Append(temps, ex.temp), log2)

\* Builder::build(self)
build(d, b) == field_processing(d, b.slots, 1, <<>>, <<>>)

\* A call of the setter of some field with some value.
SetField ==
    /\ phase = "builder"
    /\ \E i \in 1..Len(desc.fields) :
          \E value \in SetterValues(desc.fields[i].ty.inner) :
             builder' = setter(builder, i, value)
    /\ UNCHANGED <<desc, phase, request, error, calls, out>>
    /\ UNCHANGED surroundings

Build ==
    /\ phase = "builder"
    /\ LET r == build(desc, builder)
       IN  /\ phase' = IF r.ok THEN "built" ELSE "failed"
           /\ request' = r.request
           /\ error' = r.err
           /\ calls' = r.calls
    /\ UNCHANGED <<desc, builder, out>>
    /\ UNCHANGED surroundings

----------------------------------------------------------------------------
(* The built request: build_url(), build_body() and build_headers() *)

\* Display of a field value.
to_string(inner, value) ==
    IF inner = "u32" THEN u32_to_string(value) ELSE value

\* format!("{{{}}}", param)
placeholder(param) == <<"{">> \o param \o <<"}">>

\* path_replacement that leaves the placeholder of an absent Option value in
\* the path instead of returning the error.
path_replacement_KeepGoing(d, req, param, path) ==
    LET i == matching_field(d.fields, param)
        f == d.fields[i]
        present == IF f.ty.option THEN req[i] ELSE Some(req[i])
    IN  [ok |-> TRUE, err |-> NoError,
         path |-> IF is_some(present)
                  THEN Replace(path, placeholder(param),
                               to_string(f.ty.inner, unwrap(present)))
                  ELSE path]

\* One statement of generate_path_replacements, for one placeholder of the
\* template: the path after it, or the `?` return.
path_replacement(d, req, param, path) ==
    LET i == matching_field(d.fields, param)
        f == d.fields[i]
    IN  IF is_some(option_inner_type(f.ty))
        THEN IF is_some(req[i])
             THEN [ok |-> TRUE, err |-> NoError,
                   path |-> Replace(path, placeholder(param),
                                    to_string(f.ty.inner, unwrap(req[i])))]
             ELSE [ok |-> FALSE, err |-> missing_path_parameter(param),
                   path |-> path]
        ELSE [ok |-> TRUE, err |-> NoError,
              path |-> Replace(path, placeholder(param),
                               to_string(f.ty.inner, req[i]))]

RECURSIVE path_replacements(_, _, _, _, _)
\* The replacement statements in the order of extract_path_params, each
\* applied to the path the previous one left.
path_replacements(d, req, params, k, path) ==
    IF k > Len(params) THEN [ok |-> TRUE, err |-> NoError, path |-> path]
    ELSE LET r == path_replacement(d, req, params[k], path)
         IN  IF ~r.ok THEN r
             ELSE path_replacements(d, req, params, k + 1, r.path)

\* The fields of one role, as indices in declaration order.
fields_of_kind(d, kind) ==
    SelectSeq([i \in 1..Len(d.fields) |-> i], LAMBDA i : d.fields[i].kind = kind)

\* The percent-encoding the query-string encoder applies to one character of
\* a value: alphanumerics are kept.
qs_encode_char(ch) ==
    IF ch = "{" THEN <<"%", "7", "B">>
    ELSE IF ch = "}" THEN <<"%", "7", "D">>
    ELSE IF ch = "/" THEN <<"%", "2", "F">>
    ELSE <<ch>>

qs_encode(text) == Concat([k \in 1..Len(text) |-> qs_encode_char(text[k])])

\* The value of field i as the serializers see it: Some(v) when there is a
\* value to write, None when skip_serializing_if = "Option::is_none" drops it.
serialized_value(d, req, i) ==
    IF is_some(option_inner_type(d.fields[i].ty)) THEN req[i] ELSE Some(req[i])

\* serde_qs::Config::new().serialize_string(&QueryParams {..}): key=value
\* pairs of the fields that are written, joined by '&'.
serialize_string(d, req, query_fields) ==
    LET written == SelectSeq(query_fields,
                       LAMBDA i : is_some(serialized_value(d, req, i)))
    IN  Join([k \in 1..Len(written) |->
                LET i == written[k]
                IN  d.fields[i].name \o <<"=">> \o
                    qs_encode(to_string(d.fields[i].ty.inner,
                                        unwrap(serialized_value(d, req, i))))],
             <<"&">>)

\* query_serialization that pushes '?' whenever the struct has query fields.
query_serialization_Always(d, req, path) ==
    LET query_fields == fields_of_kind(d, "Query")
    IN  IF query_fields = <<>> THEN path
        ELSE path \o <<"?">> \o serialize_string(d, req, query_fields)

\* generate_query_serialization: nothing without query fields; otherwise the
\* query string is pushed after '?' when it is not empty.
query_serialization(d, req, path) ==
    LET query_fields == fields_of_kind(d, "Query")
    IN  IF query_fields = <<>> THEN path
        ELSE LET query_string == serialize_string(d, req, query_fields)
             IN  IF query_string # <<>>
                 THEN path \o <<"?">> \o query_string
                 ELSE path

\* Request::build_url(&self)
build_url(d, req) ==
    LET r == path_replacements(d, req, extract_path_params(d.path), 1, d.path)
    IN  IF ~r.ok THEN [ok |-> FALSE, val |-> <<>>, err |-> r.err]
        ELSE [ok |-> TRUE, val |-> query_serialization(d, req, r.path),
              err |-> NoError]

\* serde_json's serialization of a field value: a number, a string with
\* its quotes and escapes, or a map, which is an object when it is empty
\* and an error when it has an entry, a tuple being no JSON key ("key must
\* be a string").
json_value(inner, value) ==
    IF inner = "u32" THEN [ok |-> TRUE, val |-> u32_to_string(value)]
    ELSE IF inner = "Map"
    THEN IF value = <<>> THEN [ok |-> TRUE, val |-> <<"{", "}">>]
         ELSE [ok |-> FALSE, val |-> <<>>]
    ELSE [ok |-> TRUE,
          val |-> <<"\"">> \o
                  Concat([k \in 1..Len(value) |->
                             IF value[k] \in {"\"", "\\"}
                             THEN <<"\\", value[k]>>
                             ELSE <<value[k]>>]) \o
                  <<"\"">>]

\* serde_json::to_vec(&BodyParams {..}): one JSON object with a member per
\* field that is written, or the error of a member that cannot be
\* serialized.
to_vec(d, req, body_fields) ==
    LET written == SelectSeq(body_fields,
                       LAMBDA i : is_some(serialized_value(d, req, i)))
        member(i) == json_value(d.fields[i].ty.inner,
                                unwrap(serialized_value(d, req, i)))
    IN  IF \E k \in 1..Len(written) : ~member(written[k]).ok
        THEN [ok |-> FALSE, val |-> <<>>]
        ELSE [ok |-> TRUE,
              val |-> <<"{">> \o
                      Join([k \in 1..Len(written) |->
                              <<"\"">> \o d.fields[written[k]].name \o
                              <<"\"", ":">> \o member(written[k]).val],
                           <<",">>) \o
                      <<"}">>]

\* What build_body returns for the outcome of to_vec: Some(json), or the
\* error mapped to RequestError::BodySerializationError.
body_result(json) ==
    IF json.ok THEN [ok |-> TRUE, val |-> Some(json.val), err |-> NoError]
    ELSE [ok |-> FALSE, val |-> None,
          err |-> [kind |-> "BodySerializationError", field |-> <<>>,
                   message |-> "key must be a string"]]

\* build_body that returns no body when no body field holds a value.
build_body_NoneWhenEmpty(d, req) ==
    LET body_fields == fields_of_kind(d, "Body")
    IN  IF \A k \in 1..Len(body_fields) :
              is_none(serialized_value(d, req, body_fields[k]))
        THEN [ok |-> TRUE, val |-> None, err |-> NoError]
        ELSE body_result(to_vec(d, req, body_fields))

\* Request::build_body(&self)
build_body(d, req) ==
    LET body_fields == fields_of_kind(d, "Body")
    IN  IF body_fields = <<>>
        THEN [ok |-> TRUE, val |-> None, err |-> NoError]
        ELSE body_result(to_vec(d, req, body_fields))

LowerCase ==
    << "a", "b", "c", "d", "e", "f", "g", "h", "i", "j", "k", "l", "m",
       "n", "o", "p", "q", "r", "s", "t", "u", "v", "w", "x", "y", "z" >>

UpperCase ==
    << "A", "B", "C", "D", "E", "F", "G", "H", "I", "J", "K", "L", "M",
       "N", "O", "P", "Q", "R", "S", "T", "U", "V", "W", "X", "Y", "Z" >>

\* char::to_uppercase and char::to_lowercase on ASCII.
to_uppercase(ch) ==
    IF \E k \in 1..Len(LowerCase) : LowerCase[k] = ch
    THEN UpperCase[CHOOSE k \in 1..Len(LowerCase) : LowerCase[k] = ch]
    ELSE ch

to_lowercase(ch) ==
    IF \E k \in 1..Len(UpperCase) : UpperCase[k] = ch
    THEN LowerCase[CHOOSE k \in 1..Len(UpperCase) : UpperCase[k] = ch]
    ELSE ch

RECURSIVE split_from(_, _, _, _, _)
split_from(s, sep, i, word, words) ==
    IF i > Len(s) THEN Append(words, word)
    ELSE IF s[i] = sep
         THEN split_from(s, sep, i + 1, <<>>, Append(words, word))
         ELSE split_from(s, sep, i + 1, Append(word, s[i]), words)

\* str::split(sep): the pieces between the separators, empty ones included.
split(s, sep) == split_from(s, sep, 1, <<>>, <<>>)

\* The closure snake_to_title_case maps over the words.
title_word(word) ==
    IF word = <<>> THEN <<>>
    ELSE <<to_uppercase(Head(word))>> \o
         [k \in 1..(Len(word) - 1) |-> to_lowercase(word[k + 1])]

\* snake_to_title_case that leaves the letters after the first as they are.
snake_to_title_case_FirstOnly(s) ==
    LET words == split(s, "_")
    IN  Join([k \in 1..Len(words) |->
                IF words[k] = <<>> THEN <<>>
                ELSE <<to_uppercase(Head(words[k]))>> \o Tail(words[k])],
             <<"-">>)

\* snake_to_title_case: "x_api_key" becomes "X-Api-Key".
snake_to_title_case(s) ==
    LET words == split(s, "_")
    IN  Join([k \in 1..Len(words) |-> title_word(words[k])], <<"-">>)

\* std::collections::HashMap: a function from keys to values.
HashMap_new == [key \in {} |-> <<>>]

\* HashMap::insert: the value of an existing key is replaced.
insert(headers, key, value) ==
    [x \in (DOMAIN headers) \cup {key} |->
        IF x = key THEN value ELSE headers[x]]

\* header_name with the explicit name ignored.
header_name_Derived(f) == snake_to_title_case(f.name)

\* The key generate_request_build_headers_method gives a header field: the
\* explicit name of `header = "..."`, else the Title-Case of the field name.
header_name(f) ==
    IF is_some(f.rename) THEN unwrap(f.rename)
    ELSE snake_to_title_case(f.name)

\* header_insertion that writes an unset Option header with an empty value.
header_insertion_Always(d, req, i, headers) ==
    LET f == d.fields[i]
    IN  IF is_some(option_inner_type(f.ty))
        THEN insert(headers, header_name(f),
                    IF is_some(req[i]) THEN to_string(f.ty.inner, unwrap(req[i]))
                    ELSE <<>>)
        ELSE insert(headers, header_name(f), to_string(f.ty.inner, req[i]))

\* The statement build_headers() runs for header field i.
header_insertion(d, req, i, headers) ==
    LET f == d.fields[i]
    IN  IF is_some(option_inner_type(f.ty))
        THEN IF is_some(req[i])
             THEN insert(headers, header_name(f),
                         to_string(f.ty.inner, unwrap(req[i])))
             ELSE headers
        ELSE insert(headers, header_name(f), to_string(f.ty.inner, req[i]))

RECURSIVE header_insertions(_, _, _, _, _)
header_insertions(d, req, header_fields, k, headers) ==
    IF k > Len(header_fields) THEN headers
    ELSE header_insertions(d, req, header_fields, k + 1,
             header_insertion(d, req, header_fields[k], headers))

\* Request::build_headers(&self)
build_headers(d, req) ==
    header_insertions(d, req, fields_of_kind(d, "Header"), 1, HashMap_new)

BuildUrl ==
    /\ phase = "built"
    /\ out' = [op |-> "build_url"] @@ build_url(desc, unwrap(request))
    /\ UNCHANGED <<desc, builder, phase, request, error, calls>>
    /\ UNCHANGED surroundings

BuildBody ==
    /\ phase = "built"
    /\ out' = [op |-> "build_body"] @@ build_body(desc, unwrap(request))
    /\ UNCHANGED <<desc, builder, phase, request, error, calls>>
    /\ UNCHANGED surroundings

BuildHeaders ==
    /\ phase = "built"
    /\ out' = [op |-> "build_headers", ok |-> TRUE,
               val |-> build_headers(desc, unwrap(request)), err |-> NoError]
    /\ UNCHANGED <<desc, builder, phase, request, error, calls>>
    /\ UNCHANGED surroundings

----------------------------------------------------------------------------
(* Specification *)

Next ==
    \/ SetField
    \/ Build
    \/ BuildUrl
    \/ BuildBody
    \/ BuildHeaders

Spec == Init /\ [][Next]_vars

----------------------------------------------------------------------------
(* Sending: the builder's client slots, send() and send_with_client() *)

\* The most calls the transport clients receive in one behaviour.
MaxSends == 1

MissingBaseUrl ==
    [kind |-> "MissingBaseUrl", field |-> <<>>,
     message |-> "No base URL configured. Use .base_url() to set one."]

\* A URL-build error that loses the error it wraps.
UrlBuildError_NoSource(source) ==
    [kind |-> "UrlBuildError", field |-> <<>>, message |-> "",
     source |-> NoError]

UrlBuildError(source) ==
    [kind |-> "UrlBuildError", field |-> <<>>, message |-> "",
     source |-> source]

http_error(e) == [kind |-> "HttpError", field |-> <<>>, message |-> e]

ResponseDeserializationError ==
    [kind |-> "ResponseDeserializationError", field |-> <<>>, message |-> ""]

\* What a transport client answers: Ok(bytes) or Err(error).
Replies ==
    { [ok |-> TRUE, bytes |-> <<"{", "}">>, error |-> ""],
      [ok |-> TRUE, bytes |-> <<"o", "k">>, error |-> ""],
      [ok |-> FALSE, bytes |-> <<>>, error |-> "connection refused"] }

\* The names and values of .header(name, value) and the timeouts of
\* .timeout(duration).
DynamicHeaderNames == { <<"X", "-", "I", "D">> }
DynamicHeaderValues == { <<"v">> }
Timeouts == { 5, 9 }

\* The asynchronous transport client, A::default(); "async_custom" is one
\* the caller hands to the asynchronous API client.
AsyncClient == "async"

\* http_client that rebuilds the builder without its timeout.
http_client_DropsTimeout(b, client) ==
    [b EXCEPT !.http_client = Some(client), !.timeout = None]

\* Builder::http_client, async_http_client, base_url, header and timeout.
http_client(b, client) == [b EXCEPT !.http_client = Some(client)]

async_http_client(b, client) == [b EXCEPT !.async_http_client = Some(client)]

base_url(b, url) == [b EXCEPT !.base_url = Some(url)]

header(b, name, value) ==
    [b EXCEPT !.dynamic_headers = insert(@, name, value)]

timeout(b, duration) == [b EXCEPT !.timeout = Some(duration)]

\* extend that keeps the entries headers already holds.
extend_KeepExisting(headers, more) ==
    [x \in (DOMAIN headers) \cup (DOMAIN more) |->
        IF x \in DOMAIN headers THEN headers[x] ELSE more[x]]

\* HashMap::extend: the entries of more replace those of headers.
extend(headers, more) ==
    [x \in (DOMAIN headers) \cup (DOMAIN more) |->
        IF x \in DOMAIN more THEN more[x] ELSE headers[x]]

\* The HTTP method of the annotation, "GET" without one.
method_value(d) == IF is_some(d.method) THEN unwrap(d.method) ELSE "GET"

\* serde_json::from_slice::<Response>(&bytes) for a response struct
\* without required fields: the bytes must be a JSON object, and the value
\* is one of the response type.
from_slice(response, bytes) ==
    IF Len(bytes) >= 2 /\ Head(bytes) = "{" /\ bytes[Len(bytes)] = "}"
    THEN [ok |-> TRUE, val |-> [struct |-> response], err |-> NoError]
    ELSE [ok |-> FALSE, val |-> <<>>, err |-> ResponseDeserializationError]

\* A send that hands the client no timeout.
client_send_NoTimeout(client, method, url, headers, body, duration, reply) ==
    [ok |-> reply.ok,
     val |-> reply.bytes,
     err |-> IF reply.ok THEN NoError ELSE http_error(reply.error),
     sent |-> << [client |-> client, method |-> method, url |-> url,
                  headers |-> headers, body |-> body,
                  timeout |-> None, reply |-> reply] >>]

\* HttpClient::send as the generated code sees it: the call is recorded
\* with the client's answer, which is mapped with RequestError::http_error.
client_send(client, method, url, headers, body, duration, reply) ==
    [ok |-> reply.ok,
     val |-> reply.bytes,
     err |-> IF reply.ok THEN NoError ELSE http_error(reply.error),
     sent |-> << [client |-> client, method |-> method, url |-> url,
                  headers |-> headers, body |-> body,
                  timeout |-> duration, reply |-> reply] >>]

\* A result that returns before the client is called.
early_return(err) == [ok |-> FALSE, val |-> <<>>, err |-> err, sent |-> <<>>]

\* return_value that deserializes whatever the client answered.
return_value_NoEarlyReturn(d, response) ==
    IF is_some(d.response)
    THEN from_slice(unwrap(d.response), response.val)
             @@ [sent |-> response.sent]
    ELSE response

\* return_value of generate_builder_send_methods: with a declared response
\* type the bytes are deserialized, without one the response is returned.
return_value(d, response) ==
    IF is_some(d.response) /\ response.ok
    THEN from_slice(unwrap(d.response), response.val)
             @@ [sent |-> response.sent]
    ELSE response

\* send_with_client that calls the client although build_url() failed.
send_with_client_IgnoreUrlError(d, req, client, base, reply) ==
    LET path == build_url(d, req)
    IN  client_send(client, method_value(d), base \o path.val,
                    build_headers(d, req), build_body(d, req).val, None,
                    reply)

\* Request::send_with_client(&self, client, base_url)
send_with_client(d, req, client, base, reply) ==
    LET path == build_url(d, req)
    IN  IF ~path.ok THEN early_return(UrlBuildError(path.err))
        ELSE LET url == base \o path.val
                 headers == build_headers(d, req)
                 body == build_body(d, req)
             IN  IF ~body.ok THEN early_return(body.err)
                 ELSE client_send(client, method_value(d), url, headers,
                                  body.val, None, reply)

\* send that builds the request before it looks for the base URL.
send_BuildFirst(d, b, reply) ==
    LET built == build(d, b)
    IN  IF ~built.ok THEN early_return(built.err)
        ELSE IF is_none(b.base_url) THEN early_return(MissingBaseUrl)
        ELSE LET req == unwrap(built.request)
                 path == build_url(d, req)
             IN  IF ~path.ok THEN early_return(UrlBuildError(path.err))
                 ELSE return_value(d,
                          client_send(unwrap(b.http_client), method_value(d),
                              unwrap(b.base_url) \o path.val,
                              extend(build_headers(d, req), b.dynamic_headers),
                              build_body(d, req).val, b.timeout, reply))

\* Builder::send(self)
send(d, b, reply) ==
    IF is_none(b.http_client)
    THEN early_return(missing_field(
             <<"h", "t", "t", "p", "_", "c", "l", "i", "e", "n", "t">>))
    ELSE IF is_none(b.base_url) THEN early_return(MissingBaseUrl)
    ELSE LET built == build(d, b)
         IN  IF ~built.ok THEN early_return(built.err)
             ELSE LET req == unwrap(built.request)
                      path == build_url(d, req)
                  IN  IF ~path.ok THEN early_return(UrlBuildError(path.err))
                      ELSE LET url == unwrap(b.base_url) \o path.val
                               headers == extend(build_headers(d, req),
                                                 b.dynamic_headers)
                               body == build_body(d, req)
                           IN  IF ~body.ok THEN early_return(body.err)
                               ELSE return_value(d,
                                        client_send(unwrap(b.http_client),
                                            method_value(d), url, headers,
                                            body.val, b.timeout, reply))

\* Builder::send_async(self), from its first line to its return: the
\* stages of send() with the asynchronous client, whose answer is awaited.
send_async(d, b, reply) ==
    IF is_none(b.async_http_client)
    THEN early_return(missing_field(
             <<"a", "s", "y", "n", "c", "_", "h", "t", "t", "p", "_",
               "c", "l", "i", "e", "n", "t">>))
    ELSE IF is_none(b.base_url) THEN early_return(MissingBaseUrl)
    ELSE LET built == build(d, b)
         IN  IF ~built.ok THEN early_return(built.err)
             ELSE LET req == unwrap(built.request)
                      path == build_url(d, req)
                  IN  IF ~path.ok THEN early_return(UrlBuildError(path.err))
                      ELSE LET url == unwrap(b.base_url) \o path.val
                               headers == extend(build_headers(d, req),
                                                 b.dynamic_headers)
                               body == build_body(d, req)
                           IN  IF ~body.ok THEN early_return(body.err)
                               ELSE return_value(d,
                                        client_send(unwrap(b.async_http_client),
                                            method_value(d), url, headers,
                                            body.val, b.timeout, reply))

HttpClient ==
    /\ phase = "builder"
    /\ \E client \in Clients : builder' = http_client(builder, client)
    /\ UNCHANGED <<desc, phase, request, error, calls, out>>
    /\ UNCHANGED surroundings

AsyncHttpClient ==
    /\ phase = "builder"
    /\ builder' = async_http_client(builder, AsyncClient)
    /\ UNCHANGED <<desc, phase, request, error, calls, out>>
    /\ UNCHANGED surroundings

BaseUrl ==
    /\ phase = "builder"
    /\ builder' = base_url(builder, BaseUrlLiteral)
    /\ UNCHANGED <<desc, phase, request, error, calls, out>>
    /\ UNCHANGED surroundings

Header ==
    /\ phase = "builder"
    /\ \E name \in DynamicHeaderNames, value \in DynamicHeaderValues :
          builder' = header(builder, name, value)
    /\ UNCHANGED <<desc, phase, request, error, calls, out>>
    /\ UNCHANGED surroundings

Timeout ==
    /\ phase = "builder"
    /\ \E duration \in Timeouts : builder' = timeout(builder, duration)
    /\ UNCHANGED <<desc, phase, request, error, calls, out>>
    /\ UNCHANGED surroundings

\* send() exists on a builder whose client type implements HttpClient,
\* that is after http_client(..).
Send ==
    /\ phase = "builder"
    /\ is_some(builder.http_client)
    /\ Len(transport) < MaxSends
    /\ \E reply \in Replies :
          LET r == send(desc, builder, reply)
          IN  /\ out' = [op |-> "send", ok |-> r.ok, val |-> r.val,
                         err |-> r.err]
              /\ transport' = transport \o r.sent
    /\ phase' = "sent"
    /\ UNCHANGED <<desc, builder, request, error, calls, input, generated,
                   api>>

\* send_async() exists on a builder whose asynchronous client type
\* implements AsyncHttpClient, that is after async_http_client(..).  The
\* call takes the builder and returns the future; nothing of the body has
\* run.
SendAsync ==
    /\ phase = "builder"
    /\ is_some(builder.async_http_client)
    /\ phase' = "future"
    /\ UNCHANGED <<desc, builder, request, error, calls, out>>
    /\ UNCHANGED surroundings

\* send() and send_async() on a builder whose client type implements the
\* client trait while its client slot holds None.  No method returns such
\* a builder; a struct literal in the module that declares the request
\* struct, where the builder's fields are visible, does.  send() returns
\* the error of its first stage; send_async() returns its future, which
\* fails in the same way when it is polled.
SendWithoutClient ==
    /\ phase = "builder"
    /\ \/ /\ is_none(builder.http_client)
          /\ \E reply \in Replies :
                LET r == send(desc, builder, reply)
                IN  /\ out' = [op |-> "send", ok |-> r.ok, val |-> r.val,
                               err |-> r.err]
                    /\ transport' = transport \o r.sent
          /\ phase' = "sent"
       \/ /\ is_none(builder.async_http_client)
          /\ phase' = "future"
          /\ UNCHANGED <<out, transport>>
    /\ UNCHANGED <<desc, builder, request, error, calls, input, generated,
                   api>>

\* The first poll of the future: the body runs to the .await of
\* client.send_async(..).  A stage that fails returns its error; otherwise
\* the client has the request and the future waits for the answer.
PollSendAsync ==
    /\ phase = "future"
    /\ Len(transport) < MaxSends
    /\ \E reply \in Replies :
          LET r == send_async(desc, builder, reply)
          IN  IF r.sent = <<>>
              THEN /\ out' = [op |-> "send_async", ok |-> r.ok,
                              val |-> r.val, err |-> r.err]
                   /\ phase' = "sent"
                   /\ UNCHANGED transport
              ELSE /\ transport' = transport \o r.sent
                   /\ phase' = "pending"
                   /\ UNCHANGED out
    /\ UNCHANGED <<desc, builder, request, error, calls, input, generated,
                   api>>

\* The poll after the client answered: the body goes on behind the .await
\* with the answer to the call it made and returns.
ResumeSendAsync ==
    /\ phase = "pending"
    /\ LET call == CHOOSE c \in { transport[k] : k \in 1..Len(transport) } :
                       Some(c.client) = builder.async_http_client
           r == send_async(desc, builder, call.reply)
       IN  out' = [op |-> "send_async", ok |-> r.ok, val |-> r.val,
                   err |-> r.err]
    /\ phase' = "sent"
    /\ UNCHANGED <<desc, builder, request, error, calls>>
    /\ UNCHANGED surroundings

\* The future is dropped before it returned: what it has done stays done,
\* and it never returns.
DropSendAsync ==
    /\ phase \in {"future", "pending"}
    /\ phase' = "dropped"
    /\ UNCHANGED <<desc, builder, request, error, calls, out>>
    /\ UNCHANGED surroundings

\* While the future waits, the executor runs other code: send() of
\* another builder of the request type, one with the default blocking
\* client, the base URL and a value in every field.
SendOther ==
    /\ phase = "pending"
    /\ Len(transport) < MaxSends + 1
    /\ \E reply \in Replies :
          LET other == [base_url(http_client(new(desc), DefaultClient),
                                 BaseUrlLiteral)
                           EXCEPT !.slots =
                               [i \in 1..Len(desc.fields) |->
                                   Some(CHOOSE v \in
                                          SetterValues(desc.fields[i].ty.inner) :
                                          Some(v) # builder.slots[i])]]
              r == send(desc, other, reply)
          IN  /\ out' = [op |-> "other_send", ok |-> r.ok, val |-> r.val,
                         err |-> r.err]
              /\ transport' = transport \o r.sent
    /\ UNCHANGED <<desc, builder, phase, request, error, calls, input,
                   generated, api>>

SendWithClient ==
    /\ phase = "built"
    /\ Len(transport) < MaxSends
    /\ \E client \in Clients, reply \in Replies :
          LET r == send_with_client(desc, unwrap(request), client,
                                    BaseUrlLiteral, reply)
          IN  /\ out' = [op |-> "send_with_client", ok |-> r.ok,
                         val |-> r.val, err |-> r.err]
              /\ transport' = transport \o r.sent
    /\ UNCHANGED <<desc, builder, phase, request, error, calls, input,
                   generated, api>>

\* The request structs of the transport tests: a path parameter id, Option
\* or not, alone or followed by a header field (with or without a name of
\* its own), a body field (a String, or a map with tuple keys, which
\* serde_json can serialize only when it is empty) or a query field.
SendDescs ==
    LET id == { [name |-> FieldPool[1].name,
                 ty |-> [option |-> o, inner |-> FieldPool[1].inner],
                 default |-> "Required", validate |-> None,
                 kind |-> "Unspecified", rename |-> None] : o \in BOOLEAN }
        b == { [name |-> FieldPool[2].name,
                ty |-> [option |-> FALSE, inner |-> FieldPool[2].inner],
                default |-> "Required", validate |-> None,
                kind |-> kd, rename |-> None] :
                  kd \in {"Header", "Body", "Query"} }
        h == { [name |-> FieldPool[2].name,
                ty |-> [option |-> FALSE, inner |-> FieldPool[2].inner],
                default |-> "Required", validate |-> None,
                kind |-> "Header",
                rename |-> Some(<<"X", "-", "I", "D">>)] }
        mp == { [name |-> FieldPool[2].name,
                 ty |-> [option |-> FALSE, inner |-> "Map"],
                 default |-> "Required", validate |-> None,
                 kind |-> "Body", rename |-> None] }
        SendFieldSeqs ==
            { <<f>> : f \in id }
                \cup { <<f, g>> : f \in id, g \in b \cup h \cup mp }
    IN  { [fields |-> fs, default |-> FALSE,
           path |-> <<"/", "u", "/", "{", "i", "d", "}">>,
           method |-> m, response |-> r] :
            fs \in SendFieldSeqs,
            m \in {None, Some("POST")},
            r \in {None, Some("User")} }

\* The request structs send_with_client is followed on: those of SendDescs
\* without response type, which send_with_client does not look at.
InitSend ==
    /\ desc \in { d \in SendDescs : is_none(d.response) }
    /\ builder = new(desc)
    /\ phase = "builder"
    /\ input = NoInput
    /\ Fresh

SendNext ==
    \/ SetField
    \/ HttpClient
    \/ BaseUrl
    \/ Header
    \/ Timeout
    \/ Build
    \/ Send
    \/ SendWithClient

SendSpec == InitSend /\ [][SendNext]_vars

\* The request structs the send paths are followed on: those of SendDescs
\* without declared method and without query field.
InitSendPaths ==
    /\ desc \in { d \in SendDescs :
                    /\ is_none(d.method)
                    /\ \A i \in 1..Len(d.fields) : d.fields[i].kind # "Query" }
    /\ builder = new(desc)
    /\ phase = "builder"
    /\ input = NoInput
    /\ Fresh

\* Every send path: the blocking and the asynchronous client.
SendPathsNext ==
    \/ SetField
    \/ HttpClient
    \/ AsyncHttpClient
    \/ BaseUrl
    \/ Header
    \/ Timeout
    \/ Build
    \/ Send
    \/ SendWithoutClient
    \/ SendAsync
    \/ PollSendAsync
    \/ ResumeSendAsync
    \/ DropSendAsync
    \/ SendOther
    \/ SendWithClient

SendPathsSpec == InitSendPaths /\ [][SendPathsNext]_vars

----------------------------------------------------------------------------
(* The generated API client: derive(ApiClient) *)

\* The base URLs handed to with_base_url.
OtherBaseUrls == { <<"g">> }

\* The configuration values: what their ConfigureRequest::configure adds
\* to a builder, as .header(name, value) calls in order.  The empty one
\* is a NoRequestConfiguration type.
Configs ==
    { <<>>,
      << [name |-> <<"X", "-", "I", "D">>, value |-> <<"w">>],
         [name |-> <<"U", "A">>, value |-> <<"a">>] >> }

with_base_url(client, url) == [client EXCEPT !.base_url = url]

with_http_client(client, http) == [client EXCEPT !.client = http]

with_config(client, config) == [client EXCEPT !.config = Some(config)]

RECURSIVE configure(_, _)
\* <Config as ConfigureRequest>::configure(config, modifier): the header
\* calls of the configuration, applied to the builder.
configure(config, modifier) ==
    IF config = <<>> THEN modifier
    ELSE configure(Tail(config),
                   header(modifier, Head(config).name, Head(config).value))

\* The request method without the configure step.
request_method_NoConfigure(client, d) ==
    base_url(http_client(new(d), client.client), client.base_url)

\* The request method with a default-constructed transport client.
request_method_DefaultClient(client, d) ==
    LET b == base_url(http_client(new(d), DefaultClient), client.base_url)
    IN  IF is_some(client.config) THEN configure(unwrap(client.config), b)
        ELSE b

\* The method the client has for a request type: a new builder with a
\* clone of the client's transport client and its base URL, passed through
\* configure when the client holds a config.
request_method(client, d) ==
    LET b == base_url(http_client(new(d), client.client), client.base_url)
    IN  IF is_some(client.config) THEN configure(unwrap(client.config), b)
        ELSE b

WithBaseUrl ==
    /\ phase \in {"client", "builder"}
    /\ \E url \in OtherBaseUrls : api' = with_base_url(api, url)
    /\ UNCHANGED <<desc, builder, phase, request, error, calls, out, input,
                   generated, transport>>

\* with_http_client takes a client of the wrapper's client type: a
\* blocking one on the blocking wrapper, an asynchronous one on the other.
WithHttpClient ==
    /\ phase \in {"client", "builder"}
    /\ \E http \in (IF api.client \in Clients THEN Clients
                     ELSE {AsyncClient, "async_custom"}) :
          api' = with_http_client(api, http)
    /\ UNCHANGED <<desc, builder, phase, request, error, calls, out, input,
                   generated, transport>>

WithConfig ==
    /\ phase \in {"client", "builder"}
    /\ \E config \in Configs : api' = with_config(api, config)
    /\ UNCHANGED <<desc, builder, phase, request, error, calls, out, input,
                   generated, transport>>

\* The method the asynchronous client has for a request type: as
\* request_method, the client going into the builder's asynchronous slot.
async_request_method(client, d) ==
    LET b == base_url(async_http_client(new(d), client.client),
                      client.base_url)
    IN  IF is_some(client.config) THEN configure(unwrap(client.config), b)
        ELSE b

\* A call of the blocking client's method for the request type; the model
\* goes on with the builder it returns.
RequestMethod ==
    /\ phase \in {"client", "builder"}
    /\ api.client \in Clients
    /\ builder' = request_method(api, desc)
    /\ phase' = "builder"
    /\ UNCHANGED <<desc, request, error, calls, out, input, generated, api,
                   transport>>

\* The request types registered with the client: GetUser, with a path
\* parameter, and CreateUser, with a body field and a header field.
ClientDescs ==
    { [fields |-> << [name |-> FieldPool[1].name,
                      ty |-> [option |-> FALSE, inner |-> FieldPool[1].inner],
                      default |-> "Required", validate |-> None,
                      kind |-> "Unspecified", rename |-> None] >>,
       default |-> FALSE,
       path |-> <<"/", "u", "/", "{", "i", "d", "}">>,
       method |-> None, response |-> None],
      [fields |-> << [name |-> FieldPool[2].name,
                      ty |-> [option |-> FALSE, inner |-> FieldPool[2].inner],
                      default |-> "Required", validate |-> None,
                      kind |-> "Body", rename |-> None],
                     [name |-> FieldPool[3].name,
                      ty |-> [option |-> TRUE, inner |-> FieldPool[3].inner],
                      default |-> "Required", validate |-> None,
                      kind |-> "Header",
                      rename |-> Some(<<"X", "-", "I", "D">>)] >>,
       default |-> FALSE,
       path |-> <<"/", "u">>,
       method |-> Some("POST"), response |-> None] }

\* The same on the asynchronous client.
AsyncRequestMethod ==
    /\ phase \in {"client", "builder"}
    /\ api.client \notin Clients
    /\ builder' = async_request_method(api, desc)
    /\ phase' = "builder"
    /\ UNCHANGED <<desc, request, error, calls, out, input, generated, api,
                   transport>>

\* The program holds the blocking client or the asynchronous one, as its
\* new() returned it: no config, the base URL of the annotation, and
\* C::default() or A::default().
InitClient ==
    /\ desc \in ClientDescs
    /\ builder = new(desc)
    /\ phase = "client"
    /\ input = NoInput
    /\ request = None
    /\ error = NoError
    /\ calls = <<>>
    /\ out = NoCall
    /\ generated = None
    /\ api \in {ApiClient_new, [ApiClient_new EXCEPT !.client = AsyncClient]}
    /\ transport = <<>>

ClientNext ==
    \/ WithBaseUrl
    \/ WithHttpClient
    \/ WithConfig
    \/ RequestMethod
    \/ AsyncRequestMethod
    \/ SetField
    \/ Header
    \/ Send
    \/ SendAsync
    \/ PollSendAsync
    \/ ResumeSendAsync
    \/ DropSendAsync

ClientSpec == InitClient /\ [][ClientNext]_vars

----------------------------------------------------------------------------
(* Specification of generation: the macro applied to an annotated struct *)

\* No generated code yet: no declaration, a builder without slots.
InitGen ==
    /\ input \in Inputs
    /\ desc = [fields |-> <<>>, default |-> FALSE, path |-> <<>>]
    /\ builder = new(desc)
    /\ phase = "source"
    /\ Fresh

\* The compiler expands derive(RequestBuilder) on the struct.
Derive ==
    /\ phase = "source"
    /\ LET g == generate_request_builder(input)
       IN  /\ generated' = Some(g)
           /\ phase' = IF g.ok THEN "generated" ELSE "rejected"
    /\ UNCHANGED <<desc, builder, request, error, calls, out, input, api,
                   transport>>

GenSpec == InitGen /\ [][Derive]_vars

----------------------------------------------------------------------------
(* Generation of the API client: derive(ApiClient) on a config struct *)

MaxName == 3

is_uppercase(ch) == \E k \in 1..Len(UpperCase) : UpperCase[k] = ch

RECURSIVE snake_chars(_, _, _)
\* The loop of struct_name_to_method_name and of pascal_to_snake_case over
\* the characters from position i on, result being what was pushed so far.
snake_chars(name, i, result) ==
    IF i > Len(name) THEN result
    ELSE IF is_uppercase(name[i])
    THEN snake_chars(name, i + 1,
                     (IF result # <<>> THEN Append(result, "_") ELSE result)
                         \o <<to_lowercase(name[i])>>)
    ELSE snake_chars(name, i + 1, Append(result, name[i]))

pascal_to_snake_case(s) == snake_chars(s, 1, <<>>)

\* The conversion that starts a new word only after a lower-case letter:
\* APIClient becomes apiclient.
struct_name_to_method_name_WordStart(struct_name) ==
    Concat([i \in 1..Len(struct_name) |->
              IF is_uppercase(struct_name[i])
              THEN (IF i > 1 /\ ~is_uppercase(struct_name[i - 1])
                    THEN <<"_">> ELSE <<>>)
                   \o <<to_lowercase(struct_name[i])>>
              ELSE <<struct_name[i]>>])

struct_name_to_method_name(struct_name) == snake_chars(struct_name, 1, <<>>)

\* RequestMapping: `GetUser` or `CreateUser = "new_user"`.
RequestMapping(struct_name, method_name) ==
    [struct_name |-> struct_name, method_name |-> method_name]

\* The name generate_blocking_client gives the method of a mapping.
method_name(mapping) ==
    IF is_some(mapping.method_name) THEN unwrap(mapping.method_name)
    ELSE struct_name_to_method_name(mapping.struct_name)

\* One entry of #[api_client(...)]: a key, with or without `= value`, with
\* or without a parenthesized list.
api_meta(key, value, content) ==
    [key |-> key, value |-> value, content |-> content]

RECURSIVE parse_api_client(_, _, _, _)
\* impl Parse for ApiClientAttributes: the entries in order, then the two
\* required keys.
parse_api_client(attrs, k, url, requests) ==
    IF k > Len(attrs)
    THEN IF is_none(url) THEN Err("Missing 'base_url' attribute")
         ELSE IF is_none(requests) THEN Err("Missing 'requests' attribute")
         ELSE Ok([base_url |-> unwrap(url), requests |-> unwrap(requests)])
    ELSE IF attrs[k].key = "base_url"
    THEN IF is_some(attrs[k].value)
         THEN parse_api_client(attrs, k + 1, attrs[k].value, requests)
         ELSE Err("expected =")
    ELSE IF attrs[k].key = "requests"
    THEN IF is_some(attrs[k].content)
         THEN parse_api_client(attrs, k + 1, url, attrs[k].content)
         ELSE Err("expected parentheses")
    ELSE Err("Unknown attribute key")

\* generate_api_client: the outcome of compiling the annotated config
\* struct: the methods of the client, in the order of the mappings, and
\* the value its new() returns.
generate_api_client(config_struct) ==
    LET attrs == parse_api_client(config_struct.attrs, 1, None, None)
    IN  IF ~attrs.ok
        THEN [ok |-> FALSE, stage |-> "macro", message |-> attrs.message,
              methods |-> <<>>, new |-> None]
        ELSE LET methods ==
                     [k \in 1..Len(attrs.val.requests) |->
                        [name |-> method_name(attrs.val.requests[k]),
                         builder |-> attrs.val.requests[k].struct_name]]
                 duplicate ==
                     \E j, k \in 1..Len(methods) :
                         j < k /\ methods[j].name = methods[k].name
             IN  IF duplicate
                 THEN [ok |-> FALSE, stage |-> "expansion",
                       message |-> "duplicate definitions",
                       methods |-> <<>>, new |-> None]
                 ELSE [ok |-> TRUE, stage |-> "done", message |-> "",
                       methods |-> methods,
                       new |-> Some([config |-> None,
                                     base_url |-> attrs.val.base_url,
                                     client |-> DefaultClient])]

\* The request types: every identifier of up to MaxName characters over
\* G, U, e and _, and the names of the documentation.
StructNames ==
    (UNION { [1..n -> {"G", "U", "e", "_"}] : n \in 1..MaxName } \ {<<"_">>})
    \cup { <<"G", "e", "t", "U", "s", "e", "r">>,
           <<"A", "P", "I", "C", "l", "i", "e", "n", "t">> }

\* The annotated config structs: #[api_client(base_url = "..",
\* requests(..))] in either order, with a further key, or with a key
\* missing; requests(..) holds one mapping, or GetUser followed by a second
\* one, each with or without the custom name "new_user".
ApiClientInputs ==
    LET mappings ==
            { RequestMapping(n, m) :
                n \in StructNames,
                m \in {None, Some(<<"n", "e", "w", "_", "u", "s", "e", "r">>)} }
        lists ==
            { <<m>> : m \in mappings }
            \cup { <<RequestMapping(<<"G", "e", "t", "U", "s", "e", "r">>, None), m>> :
                     m \in mappings }
    IN  { [shape |-> "Named", fields |-> <<>>, attrs |-> a] :
            a \in UNION {
                { << api_meta("base_url", Some(BaseUrlLiteral), None),
                     api_meta("requests", None, Some(r)) >>,
                  << api_meta("requests", None, Some(r)),
                     api_meta("base_url", Some(BaseUrlLiteral), None) >>,
                  << api_meta("base_url", Some(BaseUrlLiteral), None),
                     api_meta("requests", None, Some(r)),
                     api_meta("default", None, None) >>,
                  << api_meta("requests", None, Some(r)) >> } : r \in lists } }

InitApiGen ==
    /\ input \in ApiClientInputs
    /\ desc = [fields |-> <<>>, default |-> FALSE, path |-> <<>>]
    /\ builder = new(desc)
    /\ phase = "source"
    /\ Fresh

\* The compiler expands derive(ApiClient) on the config struct.
DeriveApiClient ==
    /\ phase = "source"
    /\ LET g == generate_api_client(input)
       IN  /\ generated' = Some(g)
           /\ phase' = IF g.ok THEN "generated" ELSE "rejected"
    /\ UNCHANGED <<desc, builder, request, error, calls, out, input, api,
                   transport>>

ApiGenSpec == InitApiGen /\ [][DeriveApiClient]_vars

----------------------------------------------------------------------------
(* Properties of build() *)

\* build() has consumed the builder; `builder` still shows the value it took.
Consumed == phase \in {"built", "failed"}

FieldIndices == 1..Len(desc.fields)

Unset(i) == is_none(builder.slots[i])

\* A required field: not an Option, no default on the field or the struct.
RequiredField(i) ==
    /\ ~desc.fields[i].ty.option
    /\ desc.fields[i].default = "Required"
    /\ ~desc.default

\* Default fallback by `default` on the field or on the struct.
DefaultField(i) ==
    /\ ~desc.fields[i].ty.option
    /\ \/ desc.fields[i].default = "UseDefault"
       \/ desc.fields[i].default = "Required" /\ desc.default

\* The value of field i that its validator has to accept, as an Option: the
\* slot's value, else the fallback of a non-Option field that has one.
ValueToValidate(i) ==
    LET f == desc.fields[i]
    IN  IF ~Unset(i) THEN builder.slots[i]
        ELSE IF f.ty.option \/ RequiredField(i) THEN None
        ELSE IF f.default = "Custom" THEN Some(custom_expr(f.ty.inner))
        ELSE Some(type_default(f.ty.inner))

FailsMissing(i) == RequiredField(i) /\ Unset(i)

FailsValidation(i) ==
    /\ is_some(desc.fields[i].validate)
    /\ is_some(ValueToValidate(i))
    /\ is_some(call_validator(unwrap(desc.fields[i].validate),
                              unwrap(ValueToValidate(i))))

FieldFails(i) == FailsMissing(i) \/ FailsValidation(i)

NoEarlierFailure(i) == \A j \in 1..(i - 1) : ~FieldFails(j)

ReturnedMissing(i) ==
    /\ phase = "failed"
    /\ error.kind = "MissingField"
    /\ error.field = desc.fields[i].name

ReturnedValidation(i) ==
    /\ phase = "failed"
    /\ error.kind = "ValidationError"
    /\ error.field = desc.fields[i].name
    /\ error.message = unwrap(call_validator(unwrap(desc.fields[i].validate),
                                             unwrap(ValueToValidate(i))))

ValidatorCalled(i) ==
    \E k \in 1..Len(calls) : calls[k].step = "validate" /\ calls[k].field = i

\* C1 as stated: for any required field left unset, build() returns the
\* missing-field error naming exactly that field.
C1_AsStated ==
    Consumed => \A i \in FieldIndices : FailsMissing(i) => ReturnedMissing(i)

\* C1 (amended): for a required field left unset, when no field declared
\* before it fails, build() returns the missing-field error naming exactly
\* that field.
C1_MissingField ==
    Consumed =>
        \A i \in FieldIndices :
            FailsMissing(i) /\ NoEarlierFailure(i) => ReturnedMissing(i)

\* A build that failed on the second field, a required field left unset.
C1_Witness ==
    /\ phase = "failed"
    /\ \E i \in FieldIndices : i > 1 /\ FailsMissing(i) /\ NoEarlierFailure(i)

\* C2: build() processes the fields in declaration order, for each field
\* its extraction and then its validator; it returns the error of the first
\* field that fails and executes nothing of a later field.
C2_FirstFailure ==
    Consumed =>
        /\ \A k, l \in 1..Len(calls) :
              k < l =>
                 \/ calls[k].field < calls[l].field
                 \/ /\ calls[k].field = calls[l].field
                    /\ calls[k].step = "extract"
                    /\ calls[l].step = "validate"
        /\ \A i \in FieldIndices :
              FieldFails(i) /\ NoEarlierFailure(i) =>
                 /\ phase = "failed"
                 /\ error.field = desc.fields[i].name
                 /\ error.kind = IF FailsMissing(i) THEN "MissingField"
                                 ELSE "ValidationError"
                 /\ \A k \in 1..Len(calls) : calls[k].field <= i
                 /\ \A j \in 1..i :
                       \E k \in 1..Len(calls) :
                          calls[k].step = "extract" /\ calls[k].field = j
        /\ (\A i \in FieldIndices : ~FieldFails(i)) =>
                 /\ phase = "built"
                 /\ \A j \in FieldIndices :
                       \E k \in 1..Len(calls) :
                          calls[k].step = "extract" /\ calls[k].field = j

\* A failed build in which two fields would fail, the later one on its
\* validator.
C2_Witness ==
    /\ phase = "failed"
    /\ \E i, j \in FieldIndices :
          i < j /\ FieldFails(i) /\ FailsValidation(j)

\* C3 as stated: for any field with a validator and a value violating it,
\* build() returns the validation error with that field's name and the
\* validator's message.
C3_AsStated ==
    Consumed => \A i \in FieldIndices : FailsValidation(i) => ReturnedValidation(i)

\* C3 (amended): for a field with a validator and a value violating it,
\* when no field declared before it fails, build() returns the validation
\* error with that field's name and the validator's message.
C3_ValidationError ==
    Consumed =>
        \A i \in FieldIndices :
            FailsValidation(i) /\ NoEarlierFailure(i) => ReturnedValidation(i)

\* A build that failed on the validator of a value the caller set.
C3_Witness ==
    /\ phase = "failed"
    /\ \E i \in FieldIndices :
          ~Unset(i) /\ FailsValidation(i) /\ NoEarlierFailure(i)

\* C4: the validator of an Option field is invoked only when the slot holds
\* a value; with the slot unset it is not invoked, build() does not fail on
\* that field, and the built request holds None for it.
C4_OptionNotValidated ==
    Consumed =>
        \A i \in FieldIndices :
            desc.fields[i].ty.option =>
                /\ ValidatorCalled(i) => ~Unset(i)
                /\ Unset(i) =>
                      /\ ~ValidatorCalled(i)
                      /\ ~(phase = "failed" /\ error.field = desc.fields[i].name)
                      /\ phase = "built" => unwrap(request)[i] = None

\* A built request whose Option field with a validator was left unset.
C4_Witness ==
    /\ phase = "built"
    /\ \E i \in FieldIndices :
          /\ desc.fields[i].ty.option
          /\ is_some(desc.fields[i].validate)
          /\ Unset(i)

\* C5: a non-Option field with `default` on the field or on the struct is
\* never reported missing; the built value is the type's default when the
\* slot is unset and the setter's value when it is set.
C5_DefaultFallback ==
    Consumed =>
        \A i \in FieldIndices :
            DefaultField(i) =>
                /\ ~ReturnedMissing(i)
                /\ phase = "built" =>
                      unwrap(request)[i] =
                          IF Unset(i) THEN type_default(desc.fields[i].ty.inner)
                          ELSE unwrap(builder.slots[i])

\* A built request with a field that fell back to the struct-level default
\* and a field that kept the value set on it.
C5_Witness ==
    /\ phase = "built"
    /\ desc.default
    /\ \E i, j \in FieldIndices :
          /\ DefaultField(i) /\ Unset(i)
          /\ DefaultField(j) /\ ~Unset(j)

DefaultValidated(i) ==
    \E k \in 1..Len(calls) :
        /\ calls[k].step = "validate"
        /\ calls[k].field = i
        /\ calls[k].arg = Some(type_default(desc.fields[i].ty.inner))

DefaultWithValidator(i) ==
    /\ ~desc.fields[i].ty.option
    /\ desc.fields[i].default = "UseDefault"
    /\ is_some(desc.fields[i].validate)

\* C6 as stated: when a non-Option field has `default` and a validator and
\* its slot is unset, the validator is run on the default value and build()
\* fails with the validation error naming the field if the default violates
\* the validator.
C6_AsStated ==
    Consumed =>
        \A i \in FieldIndices :
            DefaultWithValidator(i) /\ Unset(i) =>
                /\ DefaultValidated(i)
                /\ FailsValidation(i) => ReturnedValidation(i)

\* C6 (amended): the same, when no field declared before it fails.
C6_DefaultValidated ==
    Consumed =>
        \A i \in FieldIndices :
            DefaultWithValidator(i) /\ Unset(i) /\ NoEarlierFailure(i) =>
                /\ DefaultValidated(i)
                /\ FailsValidation(i) => ReturnedValidation(i)

\* A build that failed on the validator of a substituted default.
C6_Witness ==
    /\ phase = "failed"
    /\ \E i \in FieldIndices :
          /\ DefaultWithValidator(i) /\ Unset(i) /\ NoEarlierFailure(i)
          /\ FailsValidation(i)

----------------------------------------------------------------------------
(* Properties of build_url() and build_body() *)

UrlBuilt == out.op = "build_url" /\ out.ok

\* The values of the built request (only in a state where it exists).
Req == unwrap(request)

\* The value of field i of the built request as an Option.
PresentValue(i) ==
    IF desc.fields[i].ty.option THEN Req[i] ELSE Some(Req[i])

\* The textual representation of the value of field i.
FieldText(i) == to_string(desc.fields[i].ty.inner, unwrap(PresentValue(i)))

Params == extract_path_params(desc.path)

IsPlaceholder(i) ==
    \E k \in 1..Len(Params) : matching_field(desc.fields, Params[k]) = i

QueryFields == { i \in FieldIndices : desc.fields[i].kind = "Query" }

BodyFields == { i \in FieldIndices : desc.fields[i].kind = "Body" }

Occurs(pat, s) == \E i \in 1..Len(s) : MatchesAt(s, i, pat)

\* The position of the first ch in s, 0 when there is none.
IndexOf(s, ch) ==
    IF \E i \in 1..Len(s) : s[i] = ch
    THEN CHOOSE i \in 1..Len(s) : s[i] = ch /\ \A j \in 1..(i - 1) : s[j] # ch
    ELSE 0

RECURSIVE SplitOn(_, _)
\* The pieces of s between the occurrences of ch.
SplitOn(s, ch) ==
    LET i == IndexOf(s, ch)
    IN  IF i = 0 THEN <<s>>
        ELSE <<SubSeq(s, 1, i - 1)>> \o SplitOn(SubSeq(s, i + 1, Len(s)), ch)

\* The URL up to its query string.
PathPart(url) ==
    LET i == IndexOf(url, "?")
    IN  IF i = 0 THEN url ELSE SubSeq(url, 1, i - 1)

RECURSIVE SubstituteFrom(_, _)
\* The template from position i on with each {name} of a field replaced by
\* that field's text, in one pass over the template.
SubstituteFrom(path, i) ==
    IF i > Len(path) THEN <<>>
    ELSE LET close == IndexOf(SubSeq(path, i, Len(path)), "}")
             name == SubSeq(path, i + 1, i + close - 2)
             fi == matching_field(desc.fields, name)
         IN  IF path[i] = "{" /\ close > 2 /\ fi # 0
             THEN FieldText(fi) \o SubstituteFrom(path, i + close)
             ELSE <<path[i]>> \o SubstituteFrom(path, i + 1)

\* The values field i could hold instead.
OtherValues(i) ==
    LET vs == SetterValues(desc.fields[i].ty.inner)
    IN  IF desc.fields[i].ty.option
        THEN {None} \cup { Some(v) : v \in vs }
        ELSE vs

\* The second half of C7: a field that is neither a placeholder nor a query
\* field does not change the URL, whatever value it holds.
C7_OtherFieldsIgnored ==
    UrlBuilt =>
        \A i \in FieldIndices :
            ~IsPlaceholder(i) /\ i \notin QueryFields =>
                \A v \in OtherValues(i) :
                    build_url(desc, [Req EXCEPT ![i] = v]).val = out.val

\* C7: build_url() returns the template with each {name} replaced by the
\* text of the field named name, and fields that are neither placeholders
\* nor query fields do not change the URL.
C7_AsStated ==
    UrlBuilt =>
        /\ PathPart(out.val) = SubstituteFrom(desc.path, 1)
        /\ C7_OtherFieldsIgnored

\* A placeholder whose field is an Option holding None in the built request.
OptionNone(param) ==
    LET i == matching_field(desc.fields, param)
    IN  desc.fields[i].ty.option /\ is_none(Req[i])

ReturnedMissingParam(param) ==
    /\ ~out.ok
    /\ out.err.kind = "MissingPathParameter"
    /\ out.err.field = param

\* The declaration with the Option placeholders declared with their inner
\* type, and the request with their values unwrapped.
AsRequired ==
    [desc EXCEPT !.fields =
        [i \in FieldIndices |->
            IF IsPlaceholder(i)
            THEN [desc.fields[i] EXCEPT !.ty.option = FALSE]
            ELSE desc.fields[i]]]

Unwrapped ==
    [i \in FieldIndices |->
        IF IsPlaceholder(i) /\ desc.fields[i].ty.option THEN unwrap(Req[i])
        ELSE Req[i]]

\* C8 as stated: when a placeholder's field is an Option holding None,
\* build_url() returns the missing-path-parameter error naming that
\* parameter.
C8_AsStated ==
    out.op = "build_url" =>
        \A k \in 1..Len(Params) :
            OptionNone(Params[k]) => ReturnedMissingParam(Params[k])

\* C8 (amended): when a placeholder's field is an Option holding None and
\* no placeholder before it in the template is, build_url() returns the
\* missing-path-parameter error naming that parameter; when the values are
\* present they are substituted like the values of required fields.
C8_MissingPathParameter ==
    out.op = "build_url" =>
        /\ \A k \in 1..Len(Params) :
              /\ OptionNone(Params[k])
              /\ \A l \in 1..(k - 1) : ~OptionNone(Params[l])
              => ReturnedMissingParam(Params[k])
        /\ (\A k \in 1..Len(Params) : ~OptionNone(Params[k])) =>
              /\ out.ok
              /\ out.val = build_url(AsRequired, Unwrapped).val

\* build_url() failed on the second placeholder of the template, the first
\* one being an Option that holds a value.
C8_Witness ==
    /\ out.op = "build_url"
    /\ ~out.ok
    /\ Len(Params) = 2
    /\ OptionNone(Params[2])
    /\ desc.fields[matching_field(desc.fields, Params[1])].ty.option

\* C9: a query field holding None never appears in the query string, every
\* query field holding a value appears in it, and the query string follows
\* a single '?' only when it is not empty: with no query value the URL is
\* the substituted path.
C9_QueryString ==
    UrlBuilt =>
        LET url == out.val
            path == path_replacements(desc, Req, Params, 1, desc.path).path
            rest == SubSeq(url, Len(path) + 1, Len(url))
            pairs == IF rest = <<>> THEN <<>> ELSE SplitOn(Tail(rest), "&")
        IN  /\ SubSeq(url, 1, Len(path)) = path
            /\ rest # <<>> =>
                  /\ rest[1] = "?"
                  /\ Len(rest) > 1
                  /\ \A k \in 2..Len(rest) : rest[k] # "?"
            /\ \A i \in QueryFields :
                  IF is_some(PresentValue(i))
                  THEN \E k \in 1..Len(pairs) :
                          pairs[k] = desc.fields[i].name \o <<"=">> \o
                                     qs_encode(FieldText(i))
                  ELSE \A k \in 1..Len(pairs) :
                          ~MatchesAt(pairs[k], 1, desc.fields[i].name \o <<"=">>)
            /\ (\A i \in QueryFields : is_none(PresentValue(i))) =>
                  /\ url = path
                  /\ IndexOf(url, "?") = 0

\* A URL built from one query field holding a value and one holding None.
C9_Witness ==
    /\ UrlBuilt
    /\ \E i, j \in QueryFields :
          is_some(PresentValue(i)) /\ is_none(PresentValue(j))

\* The URL of a request with query fields that all hold None.
C9_WitnessAllNone ==
    /\ UrlBuilt
    /\ QueryFields # {}
    /\ \A i \in QueryFields : is_none(PresentValue(i))

----------------------------------------------------------------------------
(* Properties of build_headers() *)

HeadersBuilt == out.op = "build_headers"

HeaderFieldSet == { i \in FieldIndices : desc.fields[i].kind = "Header" }

\* The header fields that are not Option or hold a value.
PresentHeaders == { i \in HeaderFieldSet : is_some(PresentValue(i)) }

\* The name with every '_' turned into '-', every letter that starts the
\* name or follows a '_' upper-cased and every other letter lower-cased.
TitleCase(name) ==
    [k \in 1..Len(name) |->
        IF name[k] = "_" THEN "-"
        ELSE IF k = 1 \/ name[k - 1] = "_" THEN to_uppercase(name[k])
        ELSE to_lowercase(name[k])]

\* The key the specification gives header field i.
KeyOf(i) ==
    IF is_some(desc.fields[i].rename) THEN unwrap(desc.fields[i].rename)
    ELSE TitleCase(desc.fields[i].name)

Renamed(i) == is_some(desc.fields[i].rename)

\* The last present header field, in declaration order, with the key of i.
LastWithKey(i) ==
    CHOOSE j \in PresentHeaders :
        /\ KeyOf(j) = KeyOf(i)
        /\ \A l \in PresentHeaders : KeyOf(l) = KeyOf(i) => l <= j

\* C11: a header field with an explicit name (header = "X-ID") appears in
\* build_headers() under exactly that key, and the Title-Case form of
\* its field name is a key only when another header field supplies it.
C11_ExplicitHeaderName ==
    HeadersBuilt =>
        \A i \in PresentHeaders :
            Renamed(i) =>
                /\ unwrap(desc.fields[i].rename) \in DOMAIN out.val
                /\ out.val[unwrap(desc.fields[i].rename)] =
                      FieldText(LastWithKey(i))
                /\ (/\ TitleCase(desc.fields[i].name) \in DOMAIN out.val
                    /\ TitleCase(desc.fields[i].name) #
                          unwrap(desc.fields[i].rename)) =>
                       \E j \in PresentHeaders \ {i} :
                           KeyOf(j) = TitleCase(desc.fields[i].name)

\* A renamed header field alone in the map: its Title-Case name is not a key.
C11_Witness ==
    /\ HeadersBuilt
    /\ \E i \in PresentHeaders :
          /\ Renamed(i)
          /\ unwrap(desc.fields[i].rename) = <<"X", "-", "I", "D">>
          /\ DOMAIN out.val = { <<"X", "-", "I", "D">> }
          /\ out.val[<<"X", "-", "I", "D">>] = FieldText(i)

\* C12: a header field without an explicit name appears in build_headers()
\* under its field name split at '_', each word with its first character
\* upper-cased and the rest lower-cased, the words joined with '-':
\* x_api_key is X-Api-Key.
C12_TitleCaseHeaderName ==
    HeadersBuilt =>
        \A i \in PresentHeaders :
            ~Renamed(i) =>
                /\ TitleCase(desc.fields[i].name) \in DOMAIN out.val
                /\ out.val[TitleCase(desc.fields[i].name)] =
                      FieldText(LastWithKey(i))
                /\ desc.fields[i].name =
                      <<"x", "_", "a", "p", "i", "_", "k", "e", "y">> =>
                       <<"X", "-", "A", "p", "i", "-", "K", "e", "y">>
                           \in DOMAIN out.val
                /\ \A key \in DOMAIN out.val :
                       \E j \in PresentHeaders : KeyOf(j) = key

\* x_API_key, alone and without an explicit name, under X-Api-Key.
C12_Witness ==
    /\ HeadersBuilt
    /\ Len(desc.fields) = 2
    /\ Renamed(1) /\ ~Renamed(2) /\ 2 \in PresentHeaders
    /\ desc.fields[2].name = <<"x", "_", "A", "P", "I", "_", "k", "e", "y">>
    /\ out.val[<<"X", "-", "A", "p", "i", "-", "K", "e", "y">>] = FieldText(2)

\* C13 as stated: the map has exactly one entry per header field that is
\* not Option or holds a value, none for an unset Option header field, and
\* is empty without header fields.
C13_AsStated ==
    HeadersBuilt =>
        /\ Cardinality(DOMAIN out.val) = Cardinality(PresentHeaders)
        /\ HeaderFieldSet = {} => out.val = HashMap_new

\* C13: the map has one entry per distinct key of the header fields that
\* are not Option or hold a value, with the value of the last such field
\* declared with that key; an unset Option header field contributes none;
\* without header fields the map is empty.
C13_EntryPerKey ==
    HeadersBuilt =>
        /\ DOMAIN out.val = { KeyOf(i) : i \in PresentHeaders }
        /\ \A i \in PresentHeaders :
              out.val[KeyOf(i)] = FieldText(LastWithKey(i))
        /\ HeaderFieldSet = {} => out.val = HashMap_new
        /\ (\A i, j \in PresentHeaders : i # j => KeyOf(i) # KeyOf(j)) =>
              Cardinality(DOMAIN out.val) = Cardinality(PresentHeaders)

\* One header field set and one Option header field left unset: one entry.
C13_Witness ==
    /\ HeadersBuilt
    /\ Cardinality(HeaderFieldSet) = 2
    /\ Cardinality(PresentHeaders) = 1
    /\ Cardinality(DOMAIN out.val) = 1

\* No header value at all: the empty map.
C13_WitnessEmpty ==
    /\ HeadersBuilt
    /\ HeaderFieldSet # {}
    /\ PresentHeaders = {}
    /\ out.val = HashMap_new

----------------------------------------------------------------------------
(* Properties of the keys of query and body fields *)

\* C17 as stated: a field declared query = "k" is written to the query
\* string under the key k, and a field declared body = "k" is a member
\* named k of the JSON body.
C17_AsStated ==
    /\ UrlBuilt =>
          \A i \in QueryFields :
              (Renamed(i) /\ is_some(PresentValue(i))) =>
                  Occurs(unwrap(desc.fields[i].rename) \o <<"=">> \o
                             qs_encode(FieldText(i)),
                         out.val)
    /\ out.op = "build_body" =>
          \A i \in BodyFields :
              (Renamed(i) /\ is_some(PresentValue(i))) =>
                  Occurs(<<"\"">> \o unwrap(desc.fields[i].rename) \o
                             <<"\"", ":">>,
                         unwrap(out.val))

----------------------------------------------------------------------------
(* Properties of generation *)

Generated == is_some(generated)

Outcome == unwrap(generated)

\* The keys the attribute parser recognizes on a struct and on a field.
StructKeys == {"method", "path", "response", "into", "default", "query_config"}

FieldKeys == {"path", "query", "body", "header", "into", "default", "validate"}

UnknownStructKey ==
    \E k \in 1..Len(input.attrs) : input.attrs[k].key \notin StructKeys

UnknownFieldKey(i) ==
    \E k \in 1..Len(input.fields[i].attrs) :
        input.fields[i].attrs[k].key \notin FieldKeys

InputFieldIndices == 1..Len(input.fields)

\* The template of the struct, as an Option.
Template ==
    IF \E k \in 1..Len(input.attrs) : input.attrs[k].key = "path"
    THEN input.attrs[CHOOSE k \in 1..Len(input.attrs) :
                        input.attrs[k].key = "path"].value
    ELSE None

\* {name} occurs in the template.
InTemplate(name) ==
    is_some(Template) /\ Occurs(placeholder(name), unwrap(Template))

FieldNamed(name) == \E i \in InputFieldIndices : input.fields[i].name = name

\* The names a placeholder can hold.
PlaceholderNames == { FieldPool[k].name : k \in 1..Len(FieldPool) } \cup {<<"x">>}

\* C14 as stated: an unrecognized key in a request_builder annotation, on
\* the struct or on any field, makes generation fail.
C14_AsStated ==
    (/\ Generated
     /\ \/ UnknownStructKey
        \/ \E i \in InputFieldIndices : UnknownFieldKey(i)) =>
        ~Outcome.ok

\* An unrecognized struct-level key always fails generation.
C14_StructLevel ==
    (Generated /\ UnknownStructKey) =>
        /\ ~Outcome.ok
        /\ Outcome.message = "unsupported request_builder attribute"

\* The field has the path role: its annotation holds the key path.
PathRole(i) ==
    \E k \in 1..Len(input.fields[i].attrs) :
        input.fields[i].attrs[k].key = "path"

\* The struct with the annotation of field i removed.
WithoutAttrs(i) == [input EXCEPT !.fields[i].attrs = <<>>]

\* C15 as stated: a field with the path role whose name is not a {name}
\* of the template makes generation fail.
C15_AsStated ==
    Generated =>
        \A i \in InputFieldIndices :
            (PathRole(i) /\ ~InTemplate(input.fields[i].name)) => ~Outcome.ok

\* C15: a field with the path role whose name is not a {name} of the
\* template does not make generation fail: the outcome is that of the same
\* struct with the field left unannotated, and the field is generated as a
\* path-role field.
C15_PathRoleUnchecked ==
    Generated =>
        \A i \in InputFieldIndices :
            (/\ PathRole(i)
             /\ ~UnknownFieldKey(i)
             /\ ~InTemplate(input.fields[i].name)) =>
                /\ Outcome.ok = generate_request_builder(WithoutAttrs(i)).ok
                /\ Outcome.ok => Outcome.fields[i].kind = "Path"

\* Generation succeeded for a path-role field the template does not name.
C15_Witness ==
    /\ Generated
    /\ Outcome.ok
    /\ is_some(Template)
    /\ \E i \in InputFieldIndices :
          PathRole(i) /\ ~InTemplate(input.fields[i].name)

\* Generation succeeded for a path-role field of a struct without template.
C15_WitnessNoTemplate ==
    /\ Generated
    /\ Outcome.ok
    /\ is_none(Template)
    /\ \E i \in InputFieldIndices : PathRole(i)

\* C16: a {name} in the template with no field named name fails
\* generation (a compile error naming the placeholder, when the struct-level
\* annotation itself is accepted and the struct has a field at all); no
\* code is generated that could fail at run time or leave the placeholder
\* in the URL.
C16_UnmatchedPlaceholder ==
    Generated =>
        \A name \in PlaceholderNames :
            (InTemplate(name) /\ ~FieldNamed(name)) =>
                /\ ~Outcome.ok
                /\ phase = "rejected"
                /\ (~UnknownStructKey /\ input.fields # <<>>) =>
                      /\ Outcome.stage = "expansion"
                      /\ ~FieldNamed(Outcome.param)
                      /\ InTemplate(Outcome.param)

\* The template /{id}/{x} on a struct with a field id and no field x.
C16_Witness ==
    /\ Generated
    /\ ~UnknownStructKey
    /\ InTemplate(<<"x">>) /\ InTemplate(<<"i", "d">>)
    /\ FieldNamed(<<"i", "d">>)
    /\ Outcome.param = <<"x">>

----------------------------------------------------------------------------
(* Properties of send() and send_with_client() *)

\* The last call a transport client received.
LastCall == transport[Len(transport)]

\* The asynchronous client of the builder has received its request: the
\* future waits for the answer, has returned or was dropped while waiting.
AsyncSent ==
    \E k \in 1..Len(transport) :
        Some(transport[k].client) = builder.async_http_client

\* The call the asynchronous client of the builder received.
AsyncCall ==
    transport[CHOOSE k \in 1..Len(transport) :
                 Some(transport[k].client) = builder.async_http_client]

\* C18: send() on a builder that holds a transport client and no base URL
\* returns the missing-base-URL error, whatever the field slots hold, and
\* no transport client is called.
C18_MissingBaseUrl ==
    (out.op = "send" /\ is_none(builder.base_url)) =>
        /\ ~out.ok
        /\ out.err.kind = "MissingBaseUrl"
        /\ out.err.message =
              "No base URL configured. Use .base_url() to set one."
        /\ transport = <<>>

\* send() without base URL on a builder whose required field is unset.
C18_Witness ==
    /\ out.op = "send"
    /\ is_none(builder.base_url)
    /\ is_some(builder.http_client)
    /\ \E i \in FieldIndices : RequiredField(i) /\ Unset(i)

\* What the specification says the client is called with.
ExpectedCall(client, call) ==
    /\ call.client = client
    /\ call.method = (IF is_some(desc.method) THEN unwrap(desc.method)
                      ELSE "GET")
    /\ call.url = BaseUrlLiteral \o build_url(desc, Req).val
    /\ call.headers = build_headers(desc, Req)
    /\ call.body = build_body(desc, Req).val

\* The result is the client's answer: its bytes, or its error wrapped as
\* the transport-error variant.
AnswerReturned(result, reply) ==
    /\ result.ok = reply.ok
    /\ reply.ok => result.val = reply.bytes
    /\ ~reply.ok =>
          result.err.kind = "HttpError" /\ result.err.message = reply.error

\* C19 as stated: every send_with_client(client, base_url) calls the
\* client's send exactly once, with the declared method ("GET" without
\* one), base_url followed by build_url(), build_headers() and
\* build_body(), and returns the client's answer.
C19_AsStated ==
    [][SendWithClient =>
          /\ Len(transport') = Len(transport) + 1
          /\ \E client \in Clients :
                ExpectedCall(client, transport'[Len(transport')])
          /\ AnswerReturned(out', transport'[Len(transport')].reply)]_vars

\* A body field of the built request holds a value serde_json cannot
\* write: a map with an entry under a tuple key.
BodyUnserializable ==
    \E i \in BodyFields :
        /\ desc.fields[i].ty.inner = "Map"
        /\ is_some(PresentValue(i))
        /\ unwrap(PresentValue(i)) # <<>>

\* C19: when build_url() and build_body() succeed, send_with_client(client,
\* base_url) calls the client's send exactly once, with the declared
\* method ("GET" without one), base_url immediately followed by
\* build_url(), build_headers() and build_body(), and returns the client's
\* bytes unchanged or its error as the transport-error variant; when
\* build_url() fails it returns the URL-build error around that failure,
\* when build_url() succeeds and build_body() fails it returns the
\* body-serialization error, and in both cases the client is not called.
C19_SendWithClient ==
    [][SendWithClient =>
          IF ~build_url(desc, Req).ok
          THEN /\ transport' = transport
               /\ ~out'.ok
               /\ out'.err.kind = "UrlBuildError"
               /\ out'.err.source = build_url(desc, Req).err
          ELSE IF BodyUnserializable
          THEN /\ transport' = transport
               /\ ~out'.ok
               /\ out'.err.kind = "BodySerializationError"
          ELSE /\ Len(transport') = Len(transport) + 1
               /\ SubSeq(transport', 1, Len(transport)) = transport
               /\ \E client \in Clients :
                     ExpectedCall(client, transport'[Len(transport')])
               /\ AnswerReturned(out', transport'[Len(transport')].reply)]_vars

\* A POST with a header and a value for the placeholder, answered with
\* bytes.
C19_Witness ==
    /\ out.op = "send_with_client"
    /\ out.ok
    /\ Len(transport) = 1
    /\ LastCall.method = "POST"
    /\ LastCall.url = <<"h", "/", "u", "/", "1", "2", "3">>
    /\ DOMAIN LastCall.headers # {}
    /\ out.val = LastCall.reply.bytes

\* The same request type without method, the client answering an error.
C19_WitnessError ==
    /\ out.op = "send_with_client"
    /\ ~out.ok
    /\ Len(transport) = 1
    /\ LastCall.method = "GET"
    /\ out.err.kind = "HttpError"

\* send_with_client on a request whose Option placeholder field is None.
C19_WitnessUrlError ==
    /\ out.op = "send_with_client"
    /\ transport = <<>>
    /\ out.err.kind = "UrlBuildError"

\* send_with_client on a request whose placeholder holds a value and
\* whose body cannot be serialized.
C19_WitnessBodyError ==
    /\ out.op = "send_with_client"
    /\ transport = <<>>
    /\ BodyUnserializable
    /\ out.err.kind = "BodySerializationError"

\* The same request type, the map empty: the client received the body.
C19_WitnessBodyEmptyMap ==
    /\ out.op = "send_with_client"
    /\ Len(transport) = 1
    /\ LastCall.body = Some(<<"{", "\"", "b", "\"", ":", "{", "}", "}">>)

----------------------------------------------------------------------------
(* Properties of the generated API client *)

\* The builder holds no field value and no timeout.
Untouched(b) ==
    /\ \A i \in FieldIndices : is_none(b.slots[i])
    /\ is_none(b.timeout)

\* The headers a configuration adds, later ones replacing earlier ones.
ConfigHeaders(config) ==
    [name \in { config[k].name : k \in 1..Len(config) } |->
        config[CHOOSE k \in 1..Len(config) :
                  /\ config[k].name = name
                  /\ \A l \in (k + 1)..Len(config) : config[l].name # name].value]

\* C20: a request method of the client returns a new builder with every
\* field slot unset, a clone of the client's transport client and the
\* client's current base URL; with a config present the builder has gone
\* through its configure() (its headers are the builder's dynamic headers),
\* without one it is returned as constructed; the dynamic headers of a
\* builder reach the transport client on send().
C20_RequestMethod ==
    /\ [][RequestMethod \/ AsyncRequestMethod =>
             /\ Untouched(builder')
             /\ IF RequestMethod
                THEN /\ builder'.http_client = Some(api.client)
                     /\ is_none(builder'.async_http_client)
                ELSE /\ builder'.async_http_client = Some(api.client)
                     /\ is_none(builder'.http_client)
             /\ builder'.base_url = Some(api.base_url)
             /\ builder'.dynamic_headers =
                   (IF is_some(api.config)
                    THEN ConfigHeaders(unwrap(api.config))
                    ELSE HashMap_new)]_vars
    /\ [](api.base_url \in {BaseUrlLiteral} \cup OtherBaseUrls)
    /\ []((out.op = "send" /\ transport # <<>>) =>
             /\ LastCall.client = unwrap(builder.http_client)
             /\ \A name \in DOMAIN builder.dynamic_headers :
                   /\ name \in DOMAIN LastCall.headers
                   /\ LastCall.headers[name] = builder.dynamic_headers[name])
    /\ [](AsyncSent =>
             \A name \in DOMAIN builder.dynamic_headers :
                 /\ name \in DOMAIN AsyncCall.headers
                 /\ AsyncCall.headers[name] = builder.dynamic_headers[name])

\* A client with a config, a custom transport client and a changed base
\* URL: the request went to that client and URL with the config's headers.
C20_Witness ==
    /\ out.op = "send"
    /\ transport # <<>>
    /\ is_some(api.config)
    /\ unwrap(api.config) # <<>>
    /\ LastCall.client = "custom"
    /\ LastCall.url = <<"g", "/", "u", "/", "0">>
    /\ LastCall.headers = ConfigHeaders(unwrap(api.config))

\* The asynchronous client with a config, its own transport client and a
\* changed base URL: the future waits, the request is with that client.
C20_WitnessAsync ==
    /\ phase = "pending"
    /\ is_some(api.config)
    /\ unwrap(api.config) # <<>>
    /\ LastCall.client = "async_custom"
    /\ builder.async_http_client = Some("async_custom")
    /\ is_none(builder.http_client)
    /\ LastCall.url = <<"g", "/", "u", "/", "0">>
    /\ LastCall.headers = ConfigHeaders(unwrap(api.config))

\* A client without config: the request carries no dynamic header.
C20_WitnessNoConfig ==
    /\ out.op = "send"
    /\ transport # <<>>
    /\ is_none(api.config)
    /\ LastCall.url = <<"h", "/", "u", "/", "0">>
    /\ LastCall.headers = HashMap_new

----------------------------------------------------------------------------
(* Simultaneous substitution of the placeholders *)

\* C29: the path returned by build_url() is the template with every
\* placeholder replaced simultaneously by its own field's text; text of the
\* form {other} inside a substituted value stays in the URL as it is.
C29_AsStated ==
    UrlBuilt => PathPart(out.val) = SubstituteFrom(desc.path, 1)

----------------------------------------------------------------------------
(* Structs without fields *)

\* The struct is `struct S;` or `struct S {}`.
NoFields == input.fields = <<>>

\* The template holds no placeholder.
LiteralTemplate ==
    is_some(Template) /\ extract_path_params(unwrap(Template)) = <<>>

\* The declaration generation leaves for a struct without fields.
EmptyDesc ==
    [fields |-> <<>>, default |-> Outcome.struct_attrs.default,
     path |-> unwrap(Template)]

\* C23: deriving RequestBuilder on a unit struct or on an empty named
\* struct with a URL template succeeds; Builder::new().build() then
\* succeeds and build_url() returns the template literally.
C23_AsStated ==
    (Generated /\ NoFields /\ LiteralTemplate /\ ~UnknownStructKey) =>
        /\ Outcome.ok
        /\ LET built == build(EmptyDesc, new(EmptyDesc))
           IN  /\ built.ok
               /\ build_url(EmptyDesc, built.val).ok
               /\ build_url(EmptyDesc, built.val).val = unwrap(Template)

\* Neither kind of struct without fields is ever generated.
C23_NeverGenerated == (Generated /\ NoFields) => ~Outcome.ok

----------------------------------------------------------------------------
(* Properties of the generated API client's methods *)

\* The mappings of requests(..) in the annotation.
Registered ==
    unwrap(input.attrs[CHOOSE k \in 1..Len(input.attrs) :
                          input.attrs[k].key = "requests"].content)

\* The name with every upper-case character lower-cased and preceded by
\* `_` except at the start.
SnakeCase(name) ==
    Concat([i \in 1..Len(name) |->
              IF is_uppercase(name[i])
              THEN (IF i > 1 THEN <<"_">> ELSE <<>>) \o <<to_lowercase(name[i])>>
              ELSE <<name[i]>>])

\* C21: a generated client has exactly one method per registered request
\* type, in order, returning that type's builder; the method is named by
\* the custom name when one is given, otherwise by the type's name with
\* every upper-case character lower-cased and preceded by `_` except at
\* the start.
C21_MethodNames ==
    (Generated /\ Outcome.ok) =>
        /\ Len(Outcome.methods) = Len(Registered)
        /\ \A k \in 1..Len(Registered) :
              /\ Outcome.methods[k].builder = Registered[k].struct_name
              /\ Outcome.methods[k].name =
                    IF is_some(Registered[k].method_name)
                    THEN unwrap(Registered[k].method_name)
                    ELSE SnakeCase(Registered[k].struct_name)
              /\ pascal_to_snake_case(Registered[k].struct_name) =
                    SnakeCase(Registered[k].struct_name)

\* requests(GetUser, GUe = "new_user") gives get_user and new_user.
C21_Witness ==
    /\ Generated
    /\ Outcome.ok
    /\ Len(Outcome.methods) = 2
    /\ Registered[1].struct_name = <<"G", "e", "t", "U", "s", "e", "r">>
    /\ Outcome.methods[1].name = <<"g", "e", "t", "_", "u", "s", "e", "r">>
    /\ Registered[2].struct_name = <<"G", "U", "e">>
    /\ Outcome.methods[2].name = <<"n", "e", "w", "_", "u", "s", "e", "r">>

\* requests(APIClient) gives a_p_i_client.
C21_WitnessAcronym ==
    /\ Generated
    /\ Outcome.ok
    /\ Registered[1].struct_name = <<"A", "P", "I", "C", "l", "i", "e", "n", "t">>
    /\ Outcome.methods[1].name =
          <<"a", "_", "p", "_", "i", "_", "c", "l", "i", "e", "n", "t">>

\* The annotation holds the key default.
DefaultKey == \E k \in 1..Len(input.attrs) : input.attrs[k].key = "default"

\* The config struct with the key default taken out of its annotation.
WithoutDefaultKey ==
    [input EXCEPT !.attrs = SelectSeq(input.attrs,
                                      LAMBDA m : m.key # "default")]

\* C22: a client generated from a config type annotated with the key
\* default starts with its configuration set (config() is Some); without
\* the key a new client has no configuration (config() is None).
C22_AsStated ==
    (Generated /\ generate_api_client(WithoutDefaultKey).ok) =>
        /\ Outcome.ok
        /\ is_some(unwrap(Outcome.new).config) = DefaultKey

\* A generated client never starts with a configuration, and none is
\* generated from an annotation that holds the key default.
C22_NoDefaultKey ==
    (Generated /\ Outcome.ok) =>
        ~DefaultKey /\ is_none(unwrap(Outcome.new).config)

----------------------------------------------------------------------------
(* The timeout on the send paths *)

Sent(op) == out.op = op /\ transport # <<>>

\* The call of the operation that returned last; calls of other builders
\* may follow the one of send_async() in the log.
SentCall == IF out.op = "send_async" THEN AsyncCall ELSE LastCall

\* C25 as stated: on every send path the transport client receives the
\* builder's timeout: the duration last given to timeout(d), or none when
\* timeout() was never called.
C25_AsStated ==
    (Sent("send") \/ Sent("send_async") \/ Sent("send_with_client")) =>
        SentCall.timeout = builder.timeout

\* C25: send() and send_async() hand the transport client the builder's
\* timeout slot, which is unset on a new builder and changed by timeout(d)
\* alone, to Some(d); the asynchronous client holds it from the moment the
\* request is handed over, before any answer; send_with_client, called on
\* the built request, hands the client no timeout whatever the builder
\* held.
C25_TimeoutPassthrough ==
    /\ is_none(builder.timeout)
    /\ [][builder'.timeout # builder.timeout =>
             /\ Timeout
             /\ \E d \in Timeouts : builder'.timeout = Some(d)]_vars
    /\ [](Sent("send") => LastCall.timeout = builder.timeout)
    /\ [](AsyncSent => AsyncCall.timeout = builder.timeout)
    /\ [](Sent("send_with_client") => is_none(LastCall.timeout))

\* send() after timeout(9): the client received 9.
C25_Witness ==
    /\ Sent("send")
    /\ builder.timeout = Some(9)
    /\ LastCall.timeout = Some(9)

\* send() on a builder timeout() was never called on.
C25_WitnessNone ==
    /\ Sent("send")
    /\ is_none(builder.timeout)
    /\ is_none(LastCall.timeout)

\* send_async() after timeout(5): the asynchronous client received 5.
C25_WitnessAsync ==
    /\ Sent("send_async")
    /\ AsyncCall.client = AsyncClient
    /\ AsyncCall.timeout = Some(5)

\* The future of send_async() after timeout(9) waits for the answer, and
\* another builder's send() has gone out meanwhile, without timeout.
C25_WitnessPending ==
    /\ phase = "pending"
    /\ out.op = "other_send"
    /\ Len(transport) = 2
    /\ transport[1].timeout = Some(9)
    /\ is_none(transport[2].timeout)

\* send_with_client on a request built from a builder with a timeout.
C25_WitnessSendWithClient ==
    /\ Sent("send_with_client")
    /\ is_some(builder.timeout)
    /\ is_none(LastCall.timeout)

----------------------------------------------------------------------------
(* What the setters of the builder change *)

\* The builder after the step agrees with the builder before it on every
\* part but the named one.
SameBut(part) ==
    \A other \in (DOMAIN builder) \ {part} : builder'[other] = builder[other]

\* Every slot of the builder is unset.
AllUnset ==
    /\ \A i \in FieldIndices : is_none(builder.slots[i])
    /\ is_none(builder.http_client)
    /\ is_none(builder.async_http_client)
    /\ is_none(builder.base_url)
    /\ builder.dynamic_headers = HashMap_new
    /\ is_none(builder.timeout)

\* C26: new() starts with every slot unset; a field setter sets its own
\* slot to Some(value), also over an earlier value, and leaves the other
\* field slots, both client slots, the base URL, the dynamic headers and
\* the timeout as they were; http_client(), async_http_client(),
\* base_url(), header() and timeout() change their own slot alone (header()
\* one key of the dynamic headers).
C26_SetterFrame ==
    /\ AllUnset
    /\ [][SetField =>
             /\ SameBut("slots")
             /\ \E i \in FieldIndices :
                   /\ is_some(builder'.slots[i])
                   /\ unwrap(builder'.slots[i]) \in
                         SetterValues(desc.fields[i].ty.inner)
                   /\ \A j \in FieldIndices \ {i} :
                         builder'.slots[j] = builder.slots[j]]_vars
    /\ [][HttpClient =>
             /\ SameBut("http_client")
             /\ \E client \in Clients :
                   builder'.http_client = Some(client)]_vars
    /\ [][AsyncHttpClient =>
             /\ SameBut("async_http_client")
             /\ builder'.async_http_client = Some(AsyncClient)]_vars
    /\ [][BaseUrl =>
             /\ SameBut("base_url")
             /\ builder'.base_url = Some(BaseUrlLiteral)]_vars
    /\ [][Header =>
             /\ SameBut("dynamic_headers")
             /\ \E name \in DynamicHeaderNames :
                   /\ name \in DOMAIN builder'.dynamic_headers
                   /\ builder'.dynamic_headers[name] \in DynamicHeaderValues
                   /\ \A other \in (DOMAIN builder.dynamic_headers) \ {name} :
                         /\ other \in DOMAIN builder'.dynamic_headers
                         /\ builder'.dynamic_headers[other] =
                               builder.dynamic_headers[other]]_vars
    /\ [][Timeout =>
             /\ SameBut("timeout")
             /\ \E d \in Timeouts : builder'.timeout = Some(d)]_vars
    /\ [][builder' # builder =>
             \/ SetField \/ HttpClient \/ AsyncHttpClient
             \/ BaseUrl \/ Header \/ Timeout]_vars

\* A builder every setter was called on, still holding each value.
C26_Witness ==
    /\ phase = "builder"
    /\ Len(desc.fields) = 2
    /\ \A i \in FieldIndices : is_some(builder.slots[i])
    /\ builder.http_client = Some("custom")
    /\ builder.async_http_client = Some(AsyncClient)
    /\ builder.base_url = Some(BaseUrlLiteral)
    /\ builder.dynamic_headers # HashMap_new
    /\ builder.timeout = Some(9)

----------------------------------------------------------------------------
(* The headers send() and send_async() hand to the transport client *)

SentByBuilder == Sent("send") \/ Sent("send_async")

\* The header fields whose slot holds a value when the builder is sent.
SetHeaders == { i \in HeaderFieldSet : is_some(builder.slots[i]) }

\* The text of the value in slot i of the builder.
SlotText(i) == to_string(desc.fields[i].ty.inner, unwrap(builder.slots[i]))

\* C27: the headers send() and send_async() hand to the transport client
\* are those of the header fields merged with the dynamic headers added via
\* header(), the dynamic value winning under a key both define; the dynamic
\* headers are no part of build_headers() of the built request, which
\* holds the header fields alone.
C27_HeaderMerge ==
    /\ (Sent("send") \/ AsyncSent) =>
          LET call == IF AsyncSent THEN AsyncCall ELSE LastCall
          IN  /\ DOMAIN call.headers =
                    { KeyOf(i) : i \in SetHeaders }
                        \cup DOMAIN builder.dynamic_headers
              /\ \A name \in DOMAIN builder.dynamic_headers :
                    call.headers[name] = builder.dynamic_headers[name]
              /\ \A i \in SetHeaders :
                    KeyOf(i) \notin DOMAIN builder.dynamic_headers =>
                        \E j \in SetHeaders :
                            /\ KeyOf(j) = KeyOf(i)
                            /\ call.headers[KeyOf(i)] = SlotText(j)
    /\ phase = "built" =>
          /\ DOMAIN build_headers(desc, Req) = { KeyOf(i) : i \in PresentHeaders }
          /\ \A i \in PresentHeaders :
                build_headers(desc, Req)[KeyOf(i)] = FieldText(LastWithKey(i))

\* send() with the header field X-ID set to "z" after header("X-ID", "v"):
\* the client received "v".
C27_Witness ==
    /\ Sent("send")
    /\ \E i \in SetHeaders :
          /\ KeyOf(i) = <<"X", "-", "I", "D">>
          /\ SlotText(i) = <<"z">>
    /\ builder.dynamic_headers = [name \in {<<"X", "-", "I", "D">>} |-> <<"v">>]
    /\ LastCall.headers = builder.dynamic_headers

\* send_async() with the header field B and the dynamic header X-ID: the
\* client received both.
C27_WitnessBoth ==
    /\ Sent("send_async")
    /\ DOMAIN AsyncCall.headers = { <<"B">>, <<"X", "-", "I", "D">> }

\* A request built after header("X-ID", "v") whose build_headers() is empty.
C27_WitnessBuilt ==
    /\ phase = "built"
    /\ builder.dynamic_headers # HashMap_new
    /\ build_headers(desc, Req) = HashMap_new

----------------------------------------------------------------------------
(* The stages of send() and send_async() *)

BuilderSent == out.op \in {"send", "send_async"}

\* The first field, in declaration order, that build() fails on.
FirstFailure == CHOOSE i \in FieldIndices : FieldFails(i) /\ NoEarlierFailure(i)

\* The placeholders, in template order, whose Option field is unset.
UnsetParams ==
    SelectSeq(Params,
              LAMBDA param :
                  LET i == matching_field(desc.fields, param)
                  IN  desc.fields[i].ty.option /\ Unset(i))

\* The calls the builder's own client received.
OwnCalls ==
    SelectSeq(transport,
              LAMBDA c : IF out.op = "send_async"
                         THEN Some(c.client) = builder.async_http_client
                         ELSE Some(c.client) = builder.http_client)

\* The client slot send() or send_async(), whichever returned, takes its
\* client from, and the name the missing-field error gives it.
OwnClient ==
    IF out.op = "send_async" THEN builder.async_http_client
    ELSE builder.http_client

OwnClientName ==
    IF out.op = "send_async"
    THEN <<"a", "s", "y", "n", "c", "_", "h", "t", "t", "p", "_",
           "c", "l", "i", "e", "n", "t">>
    ELSE <<"h", "t", "t", "p", "_", "c", "l", "i", "e", "n", "t">>

\* A body field of the builder holds a value serde_json cannot write: a
\* map with an entry under a tuple key.
SlotUnserializable ==
    \E i \in BodyFields :
        /\ desc.fields[i].ty.inner = "Map"
        /\ is_some(builder.slots[i])
        /\ unwrap(builder.slots[i]) # <<>>

\* C28: send() and send_async() return the error of the first stage that
\* fails, in the order client present (a missing-field error naming the
\* client slot), base URL present, build(), build_url() (its failure
\* wrapped as a URL-build error that carries the cause), build_body() (the
\* body-serialization error), and call the transport client never when a
\* stage fails and exactly once when none does, the only errors then being
\* those of the transport and of the deserialization of its answer; the
\* future of send_async() waits for an answer only after every stage
\* succeeded.
C28_StageOrder ==
  /\ phase = "pending" =>
        /\ is_some(builder.async_http_client)
        /\ is_some(builder.base_url)
        /\ \A i \in FieldIndices : ~FieldFails(i)
        /\ UnsetParams = <<>>
        /\ ~SlotUnserializable
        /\ AsyncSent
  /\ BuilderSent =>
        IF is_none(OwnClient)
        THEN /\ ~out.ok
             /\ out.err = missing_field(OwnClientName)
             /\ transport = <<>>
        ELSE IF is_none(builder.base_url)
        THEN /\ ~out.ok
             /\ out.err = MissingBaseUrl
             /\ transport = <<>>
        ELSE IF \E i \in FieldIndices : FieldFails(i)
        THEN /\ ~out.ok
             /\ out.err.kind = (IF FailsMissing(FirstFailure)
                                THEN "MissingField" ELSE "ValidationError")
             /\ out.err.field = desc.fields[FirstFailure].name
             /\ transport = <<>>
        ELSE IF UnsetParams # <<>>
        THEN /\ ~out.ok
             /\ out.err.kind = "UrlBuildError"
             /\ out.err.source = missing_path_parameter(UnsetParams[1])
             /\ transport = <<>>
        ELSE IF SlotUnserializable
        THEN /\ ~out.ok
             /\ out.err.kind = "BodySerializationError"
             /\ transport = <<>>
        ELSE /\ Len(OwnCalls) = 1
             /\ OwnCalls[1].url =
                   unwrap(builder.base_url)
                       \o build_url(desc, unwrap(build(desc, builder).request)).val
             /\ out.ok \/ out.err.kind \in {"HttpError",
                                           "ResponseDeserializationError"}

\* send() with a base URL, the required field b unset and the Option
\* placeholder field id unset: the missing field is what is returned.
C28_Witness ==
    /\ out.op = "send"
    /\ is_some(builder.base_url)
    /\ UnsetParams # <<>>
    /\ \E i \in FieldIndices : FieldFails(i)
    /\ out.err.kind = "MissingField"
    /\ transport = <<>>

\* send_async() whose build_url() fails on the unset Option field id.
C28_WitnessUrl ==
    /\ out.op = "send_async"
    /\ out.err.kind = "UrlBuildError"
    /\ out.err.source.kind = "MissingPathParameter"
    /\ out.err.source.field = <<"i", "d">>
    /\ transport = <<>>

\* send_async() that returned after another builder's send() went out
\* while it waited: its client was called once.
C28_WitnessInterleaved ==
    /\ out.op = "send_async"
    /\ Len(transport) = 2
    /\ Len(OwnCalls) = 1
    /\ transport[2].client \in Clients

\* send() without client on a builder that has no base URL either: the
\* client is what is reported missing.
C28_WitnessNoClient ==
    /\ out.op = "send"
    /\ is_none(builder.http_client)
    /\ is_none(builder.base_url)
    /\ out.err = missing_field(<<"h", "t", "t", "p", "_", "c", "l", "i",
                                 "e", "n", "t">>)

\* send_async() without client.
C28_WitnessNoAsyncClient ==
    /\ out.op = "send_async"
    /\ is_none(builder.async_http_client)
    /\ out.err.kind = "MissingField"
    /\ transport = <<>>

\* send() with every earlier stage passed and a body that cannot be
\* serialized: the client is not called.
C28_WitnessBody ==
    /\ out.op = "send"
    /\ is_some(builder.base_url)
    /\ UnsetParams = <<>>
    /\ SlotUnserializable
    /\ out.err.kind = "BodySerializationError"
    /\ transport = <<>>

\* send_async() with the Option placeholder field unset and a body that
\* cannot be serialized: the URL-build error is what is returned.
C28_WitnessUrlBeforeBody ==
    /\ out.op = "send_async"
    /\ UnsetParams # <<>>
    /\ SlotUnserializable
    /\ out.err.kind = "UrlBuildError"

\* send() that reached the transport client.
C28_WitnessSent ==
    /\ out.op = "send"
    /\ Len(transport) = 1
    /\ LastCall.url = <<"h", "/", "u", "/", "1", "2", "3">>

----------------------------------------------------------------------------
(* What send() and send_async() return *)

\* The bytes are a JSON document of the response type.
JsonOfResponse(bytes) == bytes = <<"{", "}">>

\* C30: with a response type declared, send() and send_async() return the
\* transport's bytes deserialized into that type, or the
\* response-deserialization error when they are no JSON of it; a transport
\* error is returned wrapped, and not as a deserialization error; without
\* a response type the transport's bytes are returned unchanged.
C30_Response ==
    SentByBuilder =>
        IF ~SentCall.reply.ok
        THEN /\ ~out.ok
             /\ out.err.kind = "HttpError"
             /\ out.err.message = SentCall.reply.error
        ELSE IF is_none(desc.response)
        THEN out.ok /\ out.val = SentCall.reply.bytes
        ELSE IF JsonOfResponse(SentCall.reply.bytes)
        THEN out.ok /\ out.val = [struct |-> unwrap(desc.response)]
        ELSE ~out.ok /\ out.err.kind = "ResponseDeserializationError"

\* send() of a request type with the response type User, answered {}.
C30_Witness ==
    /\ Sent("send")
    /\ desc.response = Some("User")
    /\ LastCall.reply.bytes = <<"{", "}">>
    /\ out.ok
    /\ out.val = [struct |-> "User"]

\* The same, answered with bytes that are no JSON.
C30_WitnessNoJson ==
    /\ Sent("send_async")
    /\ is_some(desc.response)
    /\ SentCall.reply.bytes = <<"o", "k">>
    /\ out.err.kind = "ResponseDeserializationError"

\* The same, the transport failing.
C30_WitnessTransport ==
    /\ Sent("send")
    /\ is_some(desc.response)
    /\ ~LastCall.reply.ok
    /\ out.err.kind = "HttpError"

\* Without response type: the bytes as they came.
C30_WitnessBytes ==
    /\ Sent("send")
    /\ is_none(desc.response)
    /\ out.ok
    /\ out.val = <<"o", "k">>

====
